---------------------------- MODULE Spec2Model ----------------------------
(***************************************************************************)
(* A model of the evcc loadpoint control loop (package core): the          *)
(* per-tick Update function, the PV surplus controller pvMaxCurrent, the   *)
(* 1p/3p scaling machine pvScalePhases and the target charging timer.      *)
(*                                                                         *)
(* Units.  Time is counted in minutes.  The Go zero time.Time is 0, the    *)
(* package variable elapsed (time.Unix(0, 1)) is 1 and the clock starts at *)
(* StartTime, later than both by more than every configured delay.         *)
(* Currents are exact rationals: one ampere is Amp units, Amp a multiple   *)
(* of Voltage*1, Voltage*2 and Voltage*3, so that power/(Voltage*phases)   *)
(* has no rounding for a power in whole watts.                             *)
(***************************************************************************)
EXTENDS Integers, Sequences, FiniteSets, TLC

VARIABLES lp, now, tick, site

vars == <<lp, now, tick, site>>

(***************************************************************************)
(* Program constants                                                       *)
(***************************************************************************)
Voltage == 230

unknownPhases == 3

deviation == 30

\* minutes
vehicleDetectDuration == 10

zeroTime == 0

elapsed == 1

\* units of current per ampere
Amp == 6 * Voltage

(***************************************************************************)
(* Bounds and the configuration the model runs                             *)
(***************************************************************************)
\* number of minutes the clock may advance
Horizon == 3

EnableDelay == 1

DisableDelay == 2

GuardDuration == 1

MinAmps == 6

MaxAmps == 8

StartTime == elapsed + EnableDelay + DisableDelay + GuardDuration + 1

MaxTime == StartTime + Horizon

\* no vehicle (a nil api.Vehicle)
Nil == [id |-> 0, phases |-> 0]

Modes == {"off", "now", "minpv", "pv"}

(***************************************************************************)
(* core/loadpoint_phases.go                                                *)
(***************************************************************************)
min(S) == CHOOSE v \in S : \A w \in S : v <= w

\* math.Min that returns its first argument
min2_first(a, b) == a

min2(a, b) == IF a <= b THEN a ELSE b

max2(a, b) == IF a >= b THEN a ELSE b

expect_unknown1(phases) == IF phases > 0 THEN phases ELSE 1

expect(phases) == IF phases > 0 THEN phases ELSE unknownPhases

getVehiclePhases(s) == IF s.vehicle # Nil THEN s.vehicle.phases ELSE 0

activePhases(s) ==
    LET physical == s.Phases
        vehicle  == getVehiclePhases(s)
        measured == s.measuredPhases
    IN  min({expect(vehicle), expect(physical), expect(measured)})

maxActivePhases(s) ==
    LET vehicle   == getVehiclePhases(s)
        \* during 1p or unknown config, 1p measured is not a restriction
        measured  == IF s.Phases <= 1 \/ vehicle = 1 THEN 0 ELSE s.measuredPhases
        \* if 1p3p supported then assume 3p
        physical  == IF s.chargePhases THEN 3 ELSE s.Phases
    IN  min({expect(vehicle), expect(physical), expect(measured)})


\* the charger's record of the Phases1p3p call of the current tick: the phase
\* count asked for, the loadpoint's enabled flag at the call and the outcome
NoSwitch == [called |-> FALSE, to |-> 0, enabled |-> FALSE, err |-> FALSE]

(***************************************************************************)
(* The loadpoint as constructed by NewLoadPoint, with the configuration    *)
(* the model runs.  chargePhases and chargerEx say whether the charger     *)
(* implements api.ChargePhases and api.ChargerEx; vehicle is Nil or a      *)
(* record [id, phases]; phases1p3p is the mock charger's record of the     *)
(* hardware phase switch; events are the events the bus has delivered     *)
(* during the current tick, in the order of delivery; mutex is the thread  *)
(* that holds the loadpoint's sync.Mutex, or empty.                        *)
(***************************************************************************)
NewLoadPoint ==
    [ Mode           |-> "off",
      Phases         |-> 3,
      status         |-> "",
      MinCurrent     |-> MinAmps * Amp,
      MaxCurrent     |-> MaxAmps * Amp,
      GuardDuration  |-> GuardDuration,
      ticksPerSecond |-> 1,
      Enable         |-> [Delay |-> EnableDelay, Threshold |-> 0],
      Disable        |-> [Delay |-> DisableDelay, Threshold |-> 0],
      enabled        |-> FALSE,
      measuredPhases |-> 0,
      chargeCurrent  |-> 0,
      guardUpdated   |-> zeroTime,
      chargePower    |-> 0,
      pvTimer        |-> zeroTime,
      phaseTimer     |-> zeroTime,
      vehicles       |-> << >>,
      vehicle        |-> Nil,
      vehicleID      |-> 0,
      vehicleConnected |-> zeroTime,
      vehicleSoc     |-> 0,
      SoC            |-> [Min |-> 0, Target |-> 100],
      remoteDemand   |-> "",
      socTimer       |-> [Time |-> zeroTime, finishAt |-> zeroTime, current |-> 0,
                          active |-> FALSE, validated |-> FALSE],
      chargePhases   |-> FALSE,
      chargerEx      |-> FALSE,
      phases1p3p     |-> NoSwitch,
      mutex          |-> "",
      events         |-> << >> ]

\* the site of a specification that runs a single loadpoint: no loadpoint
\* shares a vehicle, and the vehicle coordinator is not consulted
NoSite == [loadpoints |-> << >>, tracked |-> << >>, prepared |-> {}]

\* the outcome of the charger commands of one tick: at most one kind fails
FailKinds == {"none", "current", "enable", "phases"}

\* clock.Since
Since(t) == now - t

\* Duration.Truncate(time.Second), rounding toward zero: the
\* clock of s reads s.ticksPerSecond ticks a second (1: whole seconds or longer
\* units, and truncation leaves every duration as it is)
TruncateSecond(s, d) ==
    IF d < 0 THEN -(((-d) \div s.ticksPerSecond) * s.ticksPerSecond)
    ELSE (d \div s.ticksPerSecond) * s.ticksPerSecond

\* math.Trunc of a non-negative current
Trunc(c) == (c \div Amp) * Amp

\* core/helper.go: I = P / (U * phases)
powerToCurrent(power, phases) == (power * Amp) \div (Voltage * phases)

(***************************************************************************)
(* setLimit applies charger current limits and enables/disables            *)
(* accordingly.  Result: [lp, err, calls]; calls are the commands sent to   *)
(* the charger, in order: MaxCurrent (or MaxCurrentMillis) with the         *)
(* current, Enable with 1 (enable) or 0 (disable).                          *)
(***************************************************************************)
MaxCurrentCall(current) == [cmd |-> "MaxCurrent", arg |-> current]

EnableCall(enabled) == [cmd |-> "Enable", arg |-> IF enabled THEN 1 ELSE 0]

setLimit_applyOnError(s, chargeCurrent, force, fail) ==
    LET setCurrent == chargeCurrent # s.chargeCurrent /\ chargeCurrent >= s.MinCurrent
        current    == IF setCurrent /\ ~s.chargerEx THEN Trunc(chargeCurrent)
                      ELSE chargeCurrent
        sent       == IF setCurrent THEN <<MaxCurrentCall(current)>> ELSE << >>
        s1 == IF setCurrent THEN [s EXCEPT !.chargeCurrent = current] ELSE s
        en == current >= s1.MinCurrent
    IN  IF setCurrent /\ fail = "current"
        THEN [lp |-> s1, err |-> TRUE, calls |-> sent]
        ELSE IF en = s1.enabled
        THEN [lp |-> s1, err |-> FALSE, calls |-> sent]
        ELSE IF TruncateSecond(s1, s1.GuardDuration - Since(s1.guardUpdated)) > 0 /\ ~force
        THEN [lp |-> s1, err |-> FALSE, calls |-> sent]
        ELSE [lp |-> [s1 EXCEPT !.enabled = en, !.guardUpdated = now],
              err |-> fail = "enable", calls |-> Append(sent, EnableCall(en))]

setLimit(s, chargeCurrent, force, fail) ==
    LET setCurrent == chargeCurrent # s.chargeCurrent /\ chargeCurrent >= s.MinCurrent
        current    == IF setCurrent /\ ~s.chargerEx THEN Trunc(chargeCurrent)
                      ELSE chargeCurrent
        sent       == IF setCurrent THEN <<MaxCurrentCall(current)>> ELSE << >>
    IN  IF setCurrent /\ fail = "current"
        THEN [lp |-> s, err |-> TRUE, calls |-> sent]
        ELSE LET s1 == IF setCurrent THEN [s EXCEPT !.chargeCurrent = current] ELSE s
                 en == current >= s1.MinCurrent
             IN  IF en = s1.enabled
                 THEN [lp |-> s1, err |-> FALSE, calls |-> sent]
                 ELSE IF TruncateSecond(s1, s1.GuardDuration - Since(s1.guardUpdated)) > 0 /\ ~force
                 THEN [lp |-> s1, err |-> FALSE, calls |-> sent]
                 ELSE IF fail = "enable"
                 THEN [lp |-> s1, err |-> TRUE, calls |-> Append(sent, EnableCall(en))]
                 ELSE [lp |-> [s1 EXCEPT !.enabled = en, !.guardUpdated = now],
                       err |-> FALSE, calls |-> Append(sent, EnableCall(en))]

\* elapsePVTimer that elapses the guard only
elapsePVTimer_guardOnly(s) == [s EXCEPT !.guardUpdated = elapsed]

\* elapsePVTimer puts the pv enable/disable timer into elapsed state
elapsePVTimer(s) == [s EXCEPT !.pvTimer = elapsed, !.guardUpdated = elapsed]

\* resetPVTimerIfRunning resets the pv enable/disable timer to disabled state
resetPVTimerIfRunning(s) == [s EXCEPT !.pvTimer = zeroTime]

\* setPhases sets the number of enabled phases without modifying the charger
setPhases(s, phases) ==
    IF s.Phases # phases
    THEN [s EXCEPT !.Phases = phases, !.phaseTimer = zeroTime]
    ELSE s

\* setMeasuredPhases
setMeasuredPhases(s, phases) == [s EXCEPT !.measuredPhases = phases]

\* api.ChargePhases.Phases1p3p: the hardware phase switch
Phases1p3p(s, phases, fail) ==
    [s EXCEPT !.phases1p3p = [called |-> TRUE, to |-> phases, enabled |-> s.enabled,
                              err |-> fail = "phases"]]

(***************************************************************************)
(* scalePhases adjusts the number of active phases.  Result: [lp, err].    *)
(***************************************************************************)
scalePhases_keepSetting(s, phases, fail) ==
    IF s.Phases # phases
    THEN LET r == setLimit(s, 0, TRUE, fail)
         IN  IF r.err THEN [lp |-> r.lp, err |-> TRUE]
             ELSE IF fail = "phases"
             THEN [lp |-> Phases1p3p(r.lp, phases, fail), err |-> TRUE]
             ELSE [lp |-> elapsePVTimer(Phases1p3p(r.lp, phases, fail)), err |-> FALSE]
    ELSE [lp |-> s, err |-> FALSE]

scalePhases_ignoreError(s, phases, fail) ==
    IF s.Phases # phases
    THEN LET r == setLimit(s, 0, TRUE, fail)
         IN  IF r.err THEN [lp |-> r.lp, err |-> TRUE]
             ELSE [lp |-> elapsePVTimer(setPhases(Phases1p3p(r.lp, phases, fail), phases)),
                   err |-> fail = "phases"]
    ELSE [lp |-> s, err |-> FALSE]

scalePhases(s, phases, fail) ==
    IF s.Phases # phases
    THEN LET r == setLimit(s, 0, TRUE, fail)
         IN  IF r.err THEN [lp |-> r.lp, err |-> TRUE]
             ELSE IF fail = "phases"
             THEN [lp |-> Phases1p3p(r.lp, phases, fail), err |-> TRUE]
             ELSE [lp |-> elapsePVTimer(setPhases(Phases1p3p(r.lp, phases, fail), phases)),
                   err |-> FALSE]
    ELSE [lp |-> s, err |-> FALSE]

scalePhasesIfAvailable(s, phases, fail) ==
    IF s.chargePhases THEN scalePhases(s, phases, fail)
    ELSE [lp |-> s, err |-> FALSE]

(***************************************************************************)
(* pvScalePhases switches phases if necessary and returns if switch        *)
(* occurred.  Result: [lp, res, to]: to is the phase count scalePhases     *)
(* was called with, 0 when it was not called.                              *)
(***************************************************************************)
scalable_always(phases, maxPhases) == TRUE

scalable(phases, maxPhases) == maxPhases > 1 /\ phases < maxPhases

pvScalePhases_up_nextCall(s1, down, up, fail) ==
    LET s2 == IF up /\ s1.phaseTimer = zeroTime
              THEN [s1 EXCEPT !.phaseTimer = now] ELSE s1
    IN  IF up /\ s1.phaseTimer # zeroTime /\ Since(s2.phaseTimer) >= s2.Enable.Delay
        THEN [lp |-> scalePhases(s2, 3, fail).lp, res |-> TRUE, to |-> 3]
        ELSE LET waiting == down \/ up
             IN  IF ~waiting /\ s2.phaseTimer # zeroTime
                 THEN [lp |-> [s2 EXCEPT !.phaseTimer = zeroTime],
                       res |-> FALSE, to |-> 0]
                 ELSE [lp |-> s2, res |-> FALSE, to |-> 0]

\* the scale-up half: down says that the scale-down condition holds, up is the
\* scale-up condition
pvScalePhases_up(s1, down, up, fail) ==
    LET s2 == IF up /\ s1.phaseTimer = zeroTime
              THEN [s1 EXCEPT !.phaseTimer = now] ELSE s1
    IN  IF up /\ Since(s2.phaseTimer) >= s2.Enable.Delay
        THEN [lp |-> scalePhases(s2, 3, fail).lp, res |-> TRUE, to |-> 3]
        ELSE LET waiting == down \/ up
             IN  IF ~waiting /\ s2.phaseTimer # zeroTime
                 \* reset timer to disabled state
                 THEN [lp |-> [s2 EXCEPT !.phaseTimer = zeroTime],
                       res |-> FALSE, to |-> 0]
                 ELSE [lp |-> s2, res |-> FALSE, to |-> 0]

\* the scale-down half: phases is the configured phase count, down the
\* scale-down condition
pvScalePhases_down(s, phases, down, availablePower, minCurrent, fail) ==
    LET s1 == IF down /\ s.phaseTimer = zeroTime
              THEN [s EXCEPT !.phaseTimer = now] ELSE s
    IN  IF down /\ Since(s1.phaseTimer) >= s1.Disable.Delay
        THEN [lp |-> scalePhases(s1, 1, fail).lp, res |-> TRUE, to |-> 1]
        ELSE pvScalePhases_up(s1, down,
                 /\ powerToCurrent(availablePower, maxActivePhases(s1)) >= minCurrent
                 /\ scalable(phases, maxActivePhases(s1)),
                 fail)

pvScalePhases(s, availablePower, minCurrent, maxCurrent, fail) ==
    pvScalePhases_down(s, s.Phases,
        /\ powerToCurrent(availablePower, activePhases(s)) < minCurrent
        /\ activePhases(s) > 1,
        availablePower, minCurrent, fail)


(***************************************************************************)
(* soc.Timer, the target charging handler (lp.socTimer)                    *)
(***************************************************************************)
MustValidateDemand(s) == [s EXCEPT !.socTimer.validated = FALSE]

\* Stop that leaves the planner as it is
Stop_keepActive(s) == s

Stop(s) == [s EXCEPT !.socTimer.active = FALSE]

\* Reset that keeps the target time
Reset_keepTime(s) == Stop(s)

Reset(s) == Stop([s EXCEPT !.socTimer.Time = zeroTime])

Round_down(d) == (now * 60 + d) \div 60

\* time.Now().Add(d).Round(time.Minute): d in seconds, the result in minutes;
\* halfway values round up
Round(d) == (now * 60 + d + 30) \div 60

\* DemandActive that deactivates an active planner as soon as the target time
\* has passed
DemandActive_deadlineOnly(s, remainingDuration) ==
    IF s.socTimer.Time = zeroTime
    THEN [lp |-> s, res |-> FALSE]
    ELSE LET s1 == [s EXCEPT !.socTimer.validated = TRUE]
         IN  IF s1.vehicle = Nil
             THEN [lp |-> s1, res |-> FALSE]
             ELSE LET s2 == [s1 EXCEPT !.socTimer.finishAt = Round(remainingDuration)]
                  IN  IF s2.socTimer.active
                      THEN IF now > s2.socTimer.Time
                           THEN [lp |-> Stop(s2), res |-> FALSE]
                           ELSE [lp |-> s2, res |-> TRUE]
                      ELSE IF s2.socTimer.finishAt > s2.socTimer.Time
                           THEN [lp |-> [s2 EXCEPT !.socTimer.active = TRUE,
                                                   !.socTimer.current = s2.MaxCurrent],
                                 res |-> TRUE]
                           ELSE [lp |-> s2, res |-> FALSE]

\* DemandActive that returns false after the target time without stopping the
\* active planner
DemandActive_noStop(s, remainingDuration) ==
    IF s.socTimer.Time = zeroTime
    THEN [lp |-> s, res |-> FALSE]
    ELSE LET s1 == [s EXCEPT !.socTimer.validated = TRUE]
         IN  IF s1.vehicle = Nil
             THEN [lp |-> s1, res |-> FALSE]
             ELSE LET s2 == [s1 EXCEPT !.socTimer.finishAt = Round(remainingDuration)]
                  IN  IF s2.socTimer.active
                      THEN IF now > s2.socTimer.Time /\ s2.status # "C"
                           THEN [lp |-> s2, res |-> FALSE]
                           ELSE [lp |-> s2, res |-> TRUE]
                      ELSE IF s2.socTimer.finishAt > s2.socTimer.Time
                           THEN [lp |-> [s2 EXCEPT !.socTimer.active = TRUE,
                                                   !.socTimer.current = s2.MaxCurrent],
                                 res |-> TRUE]
                           ELSE [lp |-> s2, res |-> FALSE]

\* DemandActive; remainingDuration is the estimator's assumed charge duration over
\* the charge efficiency, in seconds.  Result: [lp, res].
DemandActive(s, remainingDuration) ==
    IF s.socTimer.Time = zeroTime
    THEN [lp |-> s, res |-> FALSE]
    ELSE LET s1 == [s EXCEPT !.socTimer.validated = TRUE]
         IN  IF s1.vehicle = Nil
             \* no soc estimator
             THEN [lp |-> s1, res |-> FALSE]
             ELSE LET s2 == [s1 EXCEPT !.socTimer.finishAt = Round(remainingDuration)]
                  IN  IF s2.socTimer.active
                      THEN IF now > s2.socTimer.Time /\ s2.status # "C"
                           THEN [lp |-> Stop(s2), res |-> FALSE]
                           ELSE [lp |-> s2, res |-> TRUE]
                      ELSE IF s2.socTimer.finishAt > s2.socTimer.Time
                           THEN [lp |-> [s2 EXCEPT !.socTimer.active = TRUE,
                                                   !.socTimer.current = s2.MaxCurrent],
                                 res |-> TRUE]
                           ELSE [lp |-> s2, res |-> FALSE]

Handle_unclamped(s) ==
    LET tm  == s.socTimer
        cur == IF tm.finishAt < tm.Time - deviation THEN tm.current - Amp
               ELSE IF tm.finishAt > tm.Time THEN tm.current + Amp
               ELSE tm.current
    IN  [lp |-> [s EXCEPT !.socTimer.current = cur], res |-> cur]

\* Handle adjusts current up/down to achieve desired target time.  Result: [lp, res].
Handle(s) ==
    LET tm  == s.socTimer
        cur == IF tm.finishAt < tm.Time - deviation THEN tm.current - Amp
               ELSE IF tm.finishAt > tm.Time THEN tm.current + Amp
               ELSE tm.current
        clamped == max2(min2(cur, s.MaxCurrent), s.MinCurrent)
    IN  [lp |-> [s EXCEPT !.socTimer.current = clamped], res |-> clamped]

(***************************************************************************)
(* PV surplus controller                                                   *)
(***************************************************************************)
\* effectiveCurrent returns the currently effective charging current;
\* chargeCurrents is << >> (nil) or the three phase currents
effectiveCurrent(s, chargeCurrents) ==
    IF s.status # "C" THEN 0
    ELSE IF chargeCurrents # << >>
    THEN min2(chargeCurrents[1] + 2 * Amp, s.chargeCurrent)
    ELSE s.chargeCurrent

\* pvMaxCurrent calculates the maximum target current for PV mode.
\* Result: [lp, res, scaled, target]: scaled says that pvScalePhases returned true,
\* target is the target current before the mode-dependent floors.
\* the enable/disable hysteresis of pvMaxCurrent on the target current
\* pvMaxCurrent_target whose enable sequence starts on any positive target
pvMaxCurrent_target_anyPositive(s1, targetCurrent, mode, sitePower, batteryBuffered, climate) ==
    LET minCurrent == s1.MinCurrent
        maxCurrent == s1.MaxCurrent
    IN  IF (mode = "minpv" \/ batteryBuffered \/ climate) /\ targetCurrent < minCurrent
        THEN [lp |-> s1, res |-> minCurrent, scaled |-> FALSE, target |-> targetCurrent]
        ELSE IF mode = "pv" /\ s1.enabled /\ targetCurrent < minCurrent
        THEN \* kick off disable sequence
             IF sitePower >= s1.Disable.Threshold /\ s1.phaseTimer = zeroTime
             THEN LET s2 == IF s1.pvTimer = zeroTime
                            THEN [s1 EXCEPT !.pvTimer = now] ELSE s1
                  IN  IF Since(s2.pvTimer) >= s2.Disable.Delay
                      THEN [lp |-> s2, res |-> 0, scaled |-> FALSE,
                            target |-> targetCurrent]
                      ELSE [lp |-> s2, res |-> minCurrent, scaled |-> FALSE,
                            target |-> targetCurrent]
             ELSE [lp |-> resetPVTimerIfRunning(s1), res |-> minCurrent,
                   scaled |-> FALSE, target |-> targetCurrent]
        ELSE IF mode = "pv" /\ ~s1.enabled
        THEN \* kick off enable sequence
             IF \/ s1.Enable.Threshold = 0 /\ targetCurrent > 0
                \/ s1.Enable.Threshold # 0 /\ sitePower <= s1.Enable.Threshold
             THEN LET s2 == IF s1.pvTimer = zeroTime
                            THEN [s1 EXCEPT !.pvTimer = now] ELSE s1
                  IN  IF Since(s2.pvTimer) >= s2.Enable.Delay
                      THEN [lp |-> s2, res |-> minCurrent, scaled |-> FALSE,
                            target |-> targetCurrent]
                      ELSE [lp |-> s2, res |-> 0, scaled |-> FALSE,
                            target |-> targetCurrent]
             ELSE [lp |-> resetPVTimerIfRunning(s1), res |-> 0, scaled |-> FALSE,
                   target |-> targetCurrent]
        ELSE \* reset timer to disabled state, cap at maximum current
             [lp |-> resetPVTimerIfRunning(s1), res |-> min2(targetCurrent, maxCurrent),
              scaled |-> FALSE, target |-> targetCurrent]

pvMaxCurrent_target(s1, targetCurrent, mode, sitePower, batteryBuffered, climate) ==
    LET minCurrent == s1.MinCurrent
        maxCurrent == s1.MaxCurrent
    IN  IF (mode = "minpv" \/ batteryBuffered \/ climate) /\ targetCurrent < minCurrent
        THEN [lp |-> s1, res |-> minCurrent, scaled |-> FALSE, target |-> targetCurrent]
        ELSE IF mode = "pv" /\ s1.enabled /\ targetCurrent < minCurrent
        THEN \* kick off disable sequence
             IF sitePower >= s1.Disable.Threshold /\ s1.phaseTimer = zeroTime
             THEN LET s2 == IF s1.pvTimer = zeroTime
                            THEN [s1 EXCEPT !.pvTimer = now] ELSE s1
                  IN  IF Since(s2.pvTimer) >= s2.Disable.Delay
                      THEN [lp |-> s2, res |-> 0, scaled |-> FALSE,
                            target |-> targetCurrent]
                      ELSE [lp |-> s2, res |-> minCurrent, scaled |-> FALSE,
                            target |-> targetCurrent]
             ELSE [lp |-> resetPVTimerIfRunning(s1), res |-> minCurrent,
                   scaled |-> FALSE, target |-> targetCurrent]
        ELSE IF mode = "pv" /\ ~s1.enabled
        THEN \* kick off enable sequence
             IF \/ s1.Enable.Threshold = 0 /\ targetCurrent >= minCurrent
                \/ s1.Enable.Threshold # 0 /\ sitePower <= s1.Enable.Threshold
             THEN LET s2 == IF s1.pvTimer = zeroTime
                            THEN [s1 EXCEPT !.pvTimer = now] ELSE s1
                  IN  IF Since(s2.pvTimer) >= s2.Enable.Delay
                      THEN [lp |-> s2, res |-> minCurrent, scaled |-> FALSE,
                            target |-> targetCurrent]
                      ELSE [lp |-> s2, res |-> 0, scaled |-> FALSE,
                            target |-> targetCurrent]
             ELSE [lp |-> resetPVTimerIfRunning(s1), res |-> 0, scaled |-> FALSE,
                   target |-> targetCurrent]
        ELSE \* reset timer to disabled state, cap at maximum current
             [lp |-> resetPVTimerIfRunning(s1), res |-> min2(targetCurrent, maxCurrent),
              scaled |-> FALSE, target |-> targetCurrent]

\* pvMaxCurrent adding the whole amperes of the surplus only
pvMaxCurrent_scaled_wholeDelta(sc, mode, sitePower, batteryBuffered, climate, chargeCurrents) ==
    IF sc.res
    THEN [lp |-> sc.lp, res |-> 0, scaled |-> TRUE, target |-> 0]
    ELSE pvMaxCurrent_target(sc.lp,
             max2(effectiveCurrent(sc.lp, chargeCurrents)
                  + Trunc(powerToCurrent(-sitePower, activePhases(sc.lp))), 0),
             mode, sitePower, batteryBuffered, climate)

\* pvMaxCurrent after the phase scaling; sc is the result of pvScalePhases
pvMaxCurrent_scaled(sc, mode, sitePower, batteryBuffered, climate, chargeCurrents) ==
    IF sc.res
    \* in case of scaling, keep charger disabled for this cycle
    THEN [lp |-> sc.lp, res |-> 0, scaled |-> TRUE, target |-> 0]
    ELSE pvMaxCurrent_target(sc.lp,
             max2(effectiveCurrent(sc.lp, chargeCurrents)
                  + powerToCurrent(-sitePower, activePhases(sc.lp)), 0),
             mode, sitePower, batteryBuffered, climate)

pvMaxCurrent(s, mode, sitePower, batteryBuffered, climate, chargeCurrents, fail) ==
    pvMaxCurrent_scaled(
        IF s.chargePhases
        THEN pvScalePhases(s, -sitePower + s.chargePower, s.MinCurrent, s.MaxCurrent, fail)
        ELSE [lp |-> s, res |-> FALSE, to |-> 0],
        mode, sitePower, batteryBuffered, climate, chargeCurrents)

(***************************************************************************)
(* SpecPhases: activePhases and maxActivePhases applied to every           *)
(* combination of charger capability, configured, vehicle and measured     *)
(* phases.                                                                 *)
(***************************************************************************)
PhaseCounts == 0 .. 3

Vehicle(n) == [id |-> 1, phases |-> n]

\* loadpoint_phases_test.go: <<capable, physical, vehicle, measured, act, max>>
phaseTests ==
    { <<1, 1, 0, 0, 1, 1>>, <<1, 1, 0, 1, 1, 1>>, <<1, 1, 1, 0, 1, 1>>,
      <<1, 1, 2, 0, 1, 1>>, <<1, 1, 3, 0, 1, 1>>,
      <<3, 3, 0, 0, unknownPhases, 3>>, <<3, 3, 0, 1, 1, 1>>, <<3, 3, 0, 2, 2, 2>>,
      <<3, 3, 0, 3, 3, 3>>, <<3, 3, 1, 0, 1, 1>>, <<3, 3, 2, 0, 2, 2>>,
      <<3, 3, 3, 0, 3, 3>>,
      <<0, 0, 0, 0, unknownPhases, 3>>, <<0, 0, 0, 1, 1, 3>>, <<0, 0, 0, 2, 2, 3>>,
      <<0, 0, 0, 3, 3, 3>>, <<0, 0, 1, 0, 1, 1>>, <<0, 0, 2, 0, 2, 2>>,
      <<0, 0, 3, 0, 3, 3>>,
      <<0, 1, 0, 0, 1, 3>>, <<0, 1, 0, 1, 1, 3>>, <<0, 1, 1, 0, 1, 1>>,
      <<0, 1, 2, 0, 1, 2>>, <<0, 1, 3, 0, 1, 3>>,
      <<0, 3, 0, 0, unknownPhases, 3>>, <<0, 3, 0, 1, 1, 1>>, <<0, 3, 0, 2, 2, 2>>,
      <<0, 3, 0, 3, 3, 3>>, <<0, 3, 1, 0, 1, 1>>, <<0, 3, 2, 0, 2, 2>>,
      <<0, 3, 3, 0, 3, 3>> }

InitPhases ==
    /\ lp \in { [NewLoadPoint EXCEPT !.chargePhases = c, !.Phases = p,
                                     !.vehicle = v, !.measuredPhases = m] :
                c \in BOOLEAN, p \in PhaseCounts, m \in PhaseCounts,
                v \in {Nil} \cup {Vehicle(n) : n \in PhaseCounts} }
    /\ now = StartTime
    /\ site = NoSite
    /\ tick = [kind |-> "init"]

EvalPhases ==
    /\ tick.kind = "init"
    /\ tick' = [kind |-> "phases", act |-> activePhases(lp), max |-> maxActivePhases(lp)]
    /\ UNCHANGED <<lp, now, site>>

NextPhases == EvalPhases

SpecPhases == InitPhases /\ [][NextPhases]_vars

(***************************************************************************)
(* SpecScale: pvScalePhases called, as pvMaxCurrent calls it on a          *)
(* switchable charger, with any available power at any time, between      *)
(* phase measurements.  The tick record keeps what the call saw and did:   *)
(* down/up are the scaling conditions of the call, downSince/upSince the   *)
(* time of the first call of the unbroken run of calls on which the        *)
(* condition held (zeroTime: it did not hold on the last call); failedTo   *)
(* is the phase count of the hardware switch that failed on the call       *)
(* before (0: none did).                                                   *)
(***************************************************************************)
AvailablePowers == { n * MinAmps * Voltage : n \in 0 .. 3 }

lowPower(s, availablePower, minCurrent) ==
    /\ powerToCurrent(availablePower, activePhases(s)) < minCurrent
    /\ activePhases(s) > 1

highPower(s, availablePower, minCurrent) ==
    /\ powerToCurrent(availablePower, maxActivePhases(s)) >= minCurrent
    /\ maxActivePhases(s) > 1
    /\ s.Phases < maxActivePhases(s)

heldSince(held, since) ==
    IF ~held THEN zeroTime ELSE IF since # zeroTime THEN since ELSE now

InitScale ==
    /\ lp \in { [NewLoadPoint EXCEPT !.chargePhases = TRUE, !.Phases = p, !.vehicle = v,
                                     !.enabled = e,
                                     !.chargeCurrent = IF e THEN NewLoadPoint.MinCurrent ELSE 0] :
                p \in {0, 1, 3}, e \in BOOLEAN, v \in {Nil, Vehicle(1), Vehicle(2)} }
    /\ now = StartTime
    /\ site = NoSite
    /\ tick = [kind |-> "init", downSince |-> zeroTime, upSince |-> zeroTime]

ScaleCall ==
    \E availablePower \in AvailablePowers, fail \in {"none", "enable", "phases"} :
        \E r    \in {pvScalePhases([lp EXCEPT !.phases1p3p = NoSwitch], availablePower,
                                  lp.MinCurrent, lp.MaxCurrent, fail)},
           down \in {lowPower(lp, availablePower, lp.MinCurrent)},
           up   \in {highPower(lp, availablePower, lp.MinCurrent)} :
            /\ lp' = r.lp
            /\ tick' = [kind      |-> "scale",
                        at        |-> now,
                        power     |-> availablePower,
                        fail      |-> fail,
                        enabled   |-> lp.enabled,
                        pvTimer   |-> lp.pvTimer,
                        failedTo  |-> IF lp.phases1p3p.called /\ lp.phases1p3p.err
                                      THEN lp.phases1p3p.to ELSE 0,
                        res       |-> r.res,
                        to        |-> r.to,
                        down      |-> down,
                        up        |-> up,
                        timer     |-> lp.phaseTimer,
                        phases    |-> lp.Phases,
                        maxPhases |-> maxActivePhases(lp),
                        downSince |-> heldSince(down, tick.downSince),
                        upSince   |-> heldSince(up, tick.upSince)]
            /\ UNCHANGED <<now, site>>

\* updateChargeCurrents: the meter shows n phases with current
MeasurePhases ==
    \E n \in 1 .. 3 :
        /\ lp.measuredPhases # n
        /\ lp' = setMeasuredPhases(lp, n)
        /\ UNCHANGED <<now, tick, site>>

ClockAdvance ==
    /\ now < MaxTime
    /\ now' = now + 1
    /\ UNCHANGED <<lp, tick, site>>

NextScale == ScaleCall \/ MeasurePhases \/ ClockAdvance

SpecScale == InitScale /\ [][NextScale]_vars


(***************************************************************************)
(* SpecTestScale: TestPvScalePhases.  A switchable charger with zero       *)
(* enable and disable delays; pvScalePhases is called on an idle phase     *)
(* timer with the power of the scale-down or of the scale-up test.         *)
(***************************************************************************)
\* the rows of phaseTests of a 1p3p charger with their scaling expectation:
\* <<physical, vehicle, measuredPhases, down, up>>
scaleTests ==
    { <<0, 0, 0, TRUE, TRUE>>, <<0, 0, 1, FALSE, TRUE>>, <<0, 0, 2, TRUE, TRUE>>,
      <<0, 0, 3, TRUE, TRUE>>, <<0, 1, 0, FALSE, FALSE>>, <<0, 2, 0, TRUE, TRUE>>,
      <<0, 3, 0, TRUE, TRUE>>,
      <<1, 0, 0, FALSE, TRUE>>, <<1, 0, 1, FALSE, TRUE>>, <<1, 1, 0, FALSE, FALSE>>,
      <<1, 2, 0, FALSE, TRUE>>, <<1, 3, 0, FALSE, TRUE>>,
      <<3, 0, 0, TRUE, FALSE>>, <<3, 0, 1, FALSE, FALSE>>, <<3, 0, 2, TRUE, FALSE>>,
      <<3, 0, 3, TRUE, FALSE>>, <<3, 1, 0, FALSE, FALSE>>, <<3, 2, 0, TRUE, FALSE>>,
      <<3, 3, 0, TRUE, FALSE>> }

InitTestScale ==
    /\ lp \in { [NewLoadPoint EXCEPT !.chargePhases = TRUE, !.Phases = p,
                                     !.vehicle = v, !.measuredPhases = m,
                                     !.Enable.Delay = 0, !.Disable.Delay = 0,
                                     !.enabled = e,
                                     !.chargeCurrent = IF e THEN NewLoadPoint.MinCurrent ELSE 0] :
                p \in {0, 1, 3}, m \in PhaseCounts, e \in BOOLEAN,
                v \in {Nil} \cup {Vehicle(n) : n \in PhaseCounts} }
    /\ now = StartTime
    /\ site = NoSite
    /\ tick = [kind |-> "init"]

\* testScale with power min1p (direction "down") or min3p (direction "up")
testScale ==
    /\ lp.phaseTimer = zeroTime
    /\ \E direction \in {"down", "up"}, fail \in {"none", "enable", "phases"} :
         \E act \in {activePhases(lp)}, max \in {maxActivePhases(lp)} :
         \E power \in {IF direction = "down" THEN 1 * MinAmps * Voltage
                        ELSE max * MinAmps * Voltage} :
         \E r \in {pvScalePhases([lp EXCEPT !.phases1p3p = NoSwitch], power,
                                 lp.MinCurrent, lp.MaxCurrent, fail)} :
           /\ lp' = r.lp
           /\ tick' = [kind |-> "test", direction |-> direction, fail |-> fail,
                       act |-> act, max |-> max, physical |-> lp.Phases,
                       vehicle |-> getVehiclePhases(lp),
                       measuredPhases |-> lp.measuredPhases,
                       scaled |-> r.res, to |-> r.to]
    /\ UNCHANGED <<now, site>>

NextTestScale == testScale

SpecTestScale == InitTestScale /\ [][NextTestScale]_vars


(***************************************************************************)
(* The control loop: Prepare, then Update ticks with the charger, meter,   *)
(* vehicle and site as inputs, interleaved with the setters and the clock. *)
(***************************************************************************)
\* api.StatusA .. api.StatusC; "" is api.StatusNone
ChargerStatus == {"A", "B", "C"}

\* configured SoC limits of the loadpoint (percent)
SoCMin == 20

SoCTarget == 80

\* target time of a charge plan
TargetTime == StartTime

\* estimated remaining charge durations (seconds)
Durations == {0, 120}

\* site power: surplus for minCurrent on 3 phases, balance, import of 2 A on 3 phases
SitePowers == { -MinAmps * Voltage * 3, 0, 2 * Voltage * 3 }

\* site hints of a tick: [cheap, batteryBuffered]
Hints == { [cheap |-> FALSE, batteryBuffered |-> FALSE],
           [cheap |-> TRUE, batteryBuffered |-> FALSE],
           [cheap |-> FALSE, batteryBuffered |-> TRUE] }

CheapHint == { [cheap |-> FALSE, batteryBuffered |-> FALSE],
               [cheap |-> TRUE, batteryBuffered |-> FALSE] }

NoHints == { [cheap |-> FALSE, batteryBuffered |-> FALSE] }

minActiveCurrent == Amp

\* charge meter reading of n phases drawing minCurrent on each; currents << >>
\* is a meter without api.MeterCurrent or a failed Currents() call, ok = FALSE
\* a failed CurrentPower() call
Reading(n) ==
    [ok |-> TRUE, power |-> n * MinAmps * Voltage,
     currents |-> [i \in 1 .. 3 |-> IF i <= n THEN MinAmps * Amp ELSE 0]]

PowerOnly(n) == [Reading(n) EXCEPT !.currents = << >>]

MeterFailed == [ok |-> FALSE, power |-> 0, currents |-> << >>]

\* the readings of a tick: those of a charging vehicle only after a tick that
\* ended charging with the charger enabled
MeterReadings(s, whileCharging) ==
    IF s.status = "C" /\ s.enabled THEN whileCharging ELSE {Reading(0)}

updateChargePower(s, meter) ==
    IF meter.ok THEN [s EXCEPT !.chargePower = meter.power] ELSE s

\* updateChargeCurrents uses MeterCurrent interface to count phases with current >=1A
updateChargeCurrents(s, meter) ==
    IF meter.currents = << >> \/ s.status # "C"
    THEN s
    ELSE LET phases == Cardinality({ i \in 1 .. 3 : meter.currents[i] > minActiveCurrent })
         IN  IF phases >= 1 THEN setMeasuredPhases(s, phases) ELSE s

connected(s) == s.status = "B" \/ s.status = "C"

charging(s) == s.status = "C"

targetSocReached(s) ==
    /\ s.vehicle # Nil
    /\ s.SoC.Target > 0
    /\ s.SoC.Target < 100
    /\ s.vehicleSoc >= s.SoC.Target

minSocNotReached(s) ==
    /\ s.vehicle # Nil
    /\ s.SoC.Min > 0
    /\ s.vehicleSoc < s.SoC.Min

\* climateActive; climate is the answer of the vehicle's Climater()
climateActive(s, climate) == s.vehicle # Nil /\ climate

unpublishVehicle(s) == [s EXCEPT !.vehicleSoc = 0]

setActiveVehicle(s, vehicle) ==
    IF s.vehicle = vehicle THEN s ELSE unpublishVehicle([s EXCEPT !.vehicle = vehicle])

pushEvent(s, event) == [s EXCEPT !.events = Append(@, event)]

evChargeStartHandler(s) == pushEvent(s, "start")

evChargeStopHandler(s) ==
    pushEvent(IF s.pvTimer # elapsed THEN resetPVTimerIfRunning(s) ELSE s, "stop")

startVehicleDetection(s) == [s EXCEPT !.vehicleConnected = now]

evVehicleConnectHandler(s) ==
    LET s1 == IF Len(s.vehicles) > 1 THEN startVehicleDetection(s) ELSE s
    IN  pushEvent(elapsePVTimer(s1), "connect")

evVehicleDisconnectHandler_keepPhases(s) ==
    LET s1 == pushEvent(s, "disconnect")
        s2 == IF Len(s1.vehicles) > 1 THEN setActiveVehicle(s1, Nil) ELSE s1
    IN  Reset(IF Len(s2.vehicles) = 1 THEN unpublishVehicle(s2) ELSE s2)

\* poll mode not "always", no reset on disconnect
evVehicleDisconnectHandler(s) ==
    LET s1 == pushEvent(setMeasuredPhases(s, 0), "disconnect")
        s2 == IF Len(s1.vehicles) > 1 THEN setActiveVehicle(s1, Nil) ELSE s1
        s3 == IF Len(s2.vehicles) = 1 THEN unpublishVehicle(s2) ELSE s2
    IN  Reset(s3)

updateChargerStatus_disconnectFirst(s, status) ==
    IF status = s.status
    THEN s
    ELSE LET prevStatus == s.status
             s1 == [s EXCEPT !.status = status]
             s2 == IF prevStatus = "A" THEN evVehicleConnectHandler(s1) ELSE s1
             s3 == IF status = "A" /\ prevStatus # "" THEN evVehicleDisconnectHandler(s2)
                   ELSE s2
         IN  IF charging(s3) THEN evChargeStartHandler(s3)
             ELSE IF prevStatus = "C" THEN evChargeStopHandler(s3) ELSE s3

\* updateChargerStatus with a successful status poll, the bus events included
updateChargerStatus(s, status) ==
    IF status = s.status
    THEN s
    ELSE LET prevStatus == s.status
             s1 == [s EXCEPT !.status = status]
             s2 == IF prevStatus = "A" THEN evVehicleConnectHandler(s1) ELSE s1
             s3 == IF charging(s2) THEN evChargeStartHandler(s2)
                   ELSE IF prevStatus = "C" THEN evChargeStopHandler(s2) ELSE s2
         IN  IF status = "A" /\ prevStatus # "" THEN evVehicleDisconnectHandler(s3) ELSE s3

\* the loadpoint at the end of a tick: the bus has no event left to deliver
delivered(s) == [s EXCEPT !.events = << >>]

\* soc estimator readings: an error, or a state of charge
SocReadings(s) ==
    IF s.vehicle # Nil /\ connected(s)
    THEN {[ok |-> FALSE, f |-> 0]} \cup {[ok |-> TRUE, f |-> f] : f \in {SoCMin, SoCTarget}}
    ELSE {[ok |-> FALSE, f |-> 0]}

publishSoCAndRange(s, soc) ==
    IF s.vehicle = Nil \/ ~soc.ok THEN s ELSE [s EXCEPT !.vehicleSoc = soc.f]

firstCase_offFirst(s, mode) ==
    IF ~(s.status = "B" \/ s.status = "C") THEN "disconnected"
    ELSE IF mode = "off" THEN "off"
    ELSE IF s.vehicle # Nil /\ s.vehicleSoc >= s.SoC.Target THEN "target"
    ELSE IF s.remoteDemand = "hard" THEN "remote"
    ELSE IF s.vehicle # Nil /\ s.vehicleSoc < s.SoC.Min THEN "minsoc"
    ELSE IF mode = "now" THEN "now"
    ELSE "demand"

firstCase_remoteLast(s, mode) ==
    IF ~(s.status = "B" \/ s.status = "C") THEN "disconnected"
    ELSE IF s.vehicle # Nil /\ s.vehicleSoc >= s.SoC.Target THEN "target"
    ELSE IF mode = "off" THEN "off"
    ELSE IF s.vehicle # Nil /\ s.vehicleSoc < s.SoC.Min THEN "minsoc"
    ELSE IF mode = "now" THEN "now"
    ELSE IF s.remoteDemand = "hard" THEN "remote"
    ELSE "demand"

\* the cases of the loading strategy that precede the planner, in the order of
\* the switch; "demand" stands for the cases from the planner on
firstCase(s, mode) ==
    IF ~connected(s) THEN "disconnected"
    ELSE IF targetSocReached(s) THEN "target"
    ELSE IF s.remoteDemand = "hard" THEN "remote"
    ELSE IF mode = "off" THEN "off"
    ELSE IF minSocNotReached(s) THEN "minsoc"
    ELSE IF mode = "now" THEN "now"
    ELSE "demand"

\* 3p if available, then the given current with force.  Result: [lp, err].
scaleAndLimit(s, current, fail) ==
    LET r == scalePhasesIfAvailable(s, 3, fail)
    IN  IF r.err THEN r
        ELSE LET l == setLimit(r.lp, current, TRUE, fail)
             IN  [lp |-> l.lp, err |-> l.err]

\* what the tick record keeps of a pvMaxCurrent call
NoPV ==
    [res |-> 0, timer |-> zeroTime, hysteresis |-> "", held |-> FALSE,
     sitePower |-> 0, target |-> 0, scaling |-> FALSE, cheap |-> FALSE]

\* hysteresis: the sequence pvMaxCurrent is in ("disable", "enable" or ""),
\* held: the condition that kicks the sequence off holds, sitePower: the site
\* power of the call, target: the target current before the floors and the cap,
\* scaling: pvScalePhases is called and finds a scaling condition to hold,
\* cheap: the cheap-tariff signal of the tick
pvObserved(s, mode, in, p) ==
    LET reached == /\ mode = "pv"
                   /\ ~p.scaled
                   /\ ~(/\ in.hint.batteryBuffered \/ climateActive(s, in.climate)
                        /\ p.target < s.MinCurrent)
        hysteresis == IF reached /\ s.enabled /\ p.target < s.MinCurrent THEN "disable"
                      ELSE IF reached /\ ~s.enabled THEN "enable"
                      ELSE ""
        held == IF hysteresis = "disable" THEN in.sitePower >= s.Disable.Threshold
                ELSE IF hysteresis = "enable"
                THEN \/ s.Enable.Threshold = 0 /\ p.target >= s.MinCurrent
                     \/ s.Enable.Threshold # 0 /\ in.sitePower <= s.Enable.Threshold
                ELSE FALSE
    IN  [res |-> p.res, timer |-> s.pvTimer, hysteresis |-> hysteresis, held |-> held,
         sitePower |-> in.sitePower, target |-> p.target,
         scaling |-> /\ s.chargePhases
                     /\ \/ lowPower(s, -in.sitePower + s.chargePower, s.MinCurrent)
                        \/ highPower(s, -in.sitePower + s.chargePower, s.MinCurrent),
         cheap |-> in.hint.cheap]

\* the result of a case of the loading strategy: r is the result of its last
\* charger command
outcome(r, branch, limit, force, pv) ==
    [lp |-> r.lp, branch |-> branch, limit |-> limit, force |-> force, err |-> r.err,
     pv |-> pv]

\* the planner case; r1 is the result of scalePhasesIfAvailable(3)
strategy_planner(r1, fail) ==
    IF r1.err
    THEN outcome(r1, "planner", 0, TRUE, NoPV)
    ELSE outcome(setLimit(Handle(r1.lp).lp, Handle(r1.lp).res, TRUE, fail),
                 "planner", Handle(r1.lp).res, TRUE, NoPV)

\* the PV cases; s is the loadpoint before and p the result of pvMaxCurrent
\* the PV cases with the cheap tariff applied after the soft remote demand
strategy_pv_cheapLast(s, mode, in, climate, p, fail) ==
    LET soft == p.lp.remoteDemand = "soft"
        required == (p.res = 0 /\ climate) \/ in.hint.cheap \/ soft
        targetCurrent == IF in.hint.cheap THEN p.lp.MaxCurrent
                         ELSE IF soft THEN 0
                         ELSE IF p.res = 0 /\ climate THEN p.lp.MinCurrent
                         ELSE p.res
    IN  outcome(setLimit(p.lp, targetCurrent, required, fail),
                "pv", targetCurrent, required, pvObserved(s, mode, in, p))

strategy_pv(s, mode, in, climate, p, fail) ==
    LET soft == p.lp.remoteDemand = "soft"
        required == (p.res = 0 /\ climate) \/ in.hint.cheap \/ soft
        targetCurrent == IF soft THEN 0
                         ELSE IF in.hint.cheap THEN p.lp.MaxCurrent
                         ELSE IF p.res = 0 /\ climate THEN p.lp.MinCurrent
                         ELSE p.res
    IN  outcome(setLimit(p.lp, targetCurrent, required, fail),
                "pv", targetCurrent, required, pvObserved(s, mode, in, p))

\* the cases from the planner on; d is the result of DemandActive
strategy_demand(d, mode, in, chargeCurrents, fail) ==
    IF d.res
    THEN strategy_planner(scalePhasesIfAvailable(d.lp, 3, fail), fail)
    ELSE IF mode = "minpv" \/ mode = "pv"
    THEN strategy_pv(d.lp, mode, in, climateActive(d.lp, in.climate),
                     pvMaxCurrent(d.lp, mode, in.sitePower, in.hint.batteryBuffered,
                                  climateActive(d.lp, in.climate), chargeCurrents, fail),
                     fail)
    ELSE [lp |-> d.lp, branch |-> "none", limit |-> 0, force |-> FALSE,
          err |-> FALSE, pv |-> NoPV]

\* the loading strategy of Update.  in: [sitePower, hint, climate, duration]
\* Result: [lp, branch, limit, force, err, pv]
strategy(s, mode, in, chargeCurrents, fail) ==
    LET c == firstCase(s, mode)
    IN  IF c = "disconnected"
        THEN outcome(setLimit(s, 0, FALSE, fail), c, 0, FALSE, NoPV)
        ELSE IF c = "target"
        THEN LET targetCurrent == IF climateActive(s, in.climate) THEN s.MinCurrent ELSE 0
             IN  [outcome(setLimit(s, targetCurrent, TRUE, fail), c, targetCurrent, TRUE,
                          NoPV)
                  EXCEPT !.lp = Reset(@)]
        ELSE IF c = "remote" \/ c = "off"
        THEN outcome(setLimit(s, 0, TRUE, fail), c, 0, TRUE, NoPV)
        ELSE IF c = "minsoc"
        THEN [outcome(scaleAndLimit(s, s.MaxCurrent, fail), c, s.MaxCurrent, TRUE, NoPV)
              EXCEPT !.lp = elapsePVTimer(@)]
        ELSE IF c = "now"
        THEN outcome(scaleAndLimit(s, s.MaxCurrent, fail), c, s.MaxCurrent, TRUE, NoPV)
        ELSE strategy_demand(DemandActive(s, in.duration), mode, in, chargeCurrents, fail)

\* the inputs the strategy reads on this tick
StrategyInputs(s, mode, sitePowers, hints) ==
    LET c  == firstCase(s, mode)
        durations == IF c = "demand" /\ s.vehicle # Nil /\ s.socTimer.Time # zeroTime
                     THEN Durations ELSE {0}
        pv(duration) == /\ c = "demand"
                        /\ mode = "minpv" \/ mode = "pv"
                        /\ ~DemandActive(s, duration).res
    IN  UNION { [ sitePower : IF pv(d) THEN sitePowers ELSE {0},
                  hint      : IF pv(d) THEN hints ELSE NoHints,
                  climate   : IF s.vehicle # Nil /\ (c = "target" \/ pv(d))
                              THEN BOOLEAN ELSE {FALSE},
                  duration  : {d} ] : d \in durations }

\* the tick record after construction
NewTick ==
    [kind |-> "new", at |-> zeroTime, polled |-> FALSE, branch |-> "", limit |-> 0,
     force |-> FALSE, err |-> FALSE, climate |-> FALSE, pv |-> NoPV,
     disableSince |-> zeroTime, enableSince |-> zeroTime, events |-> << >>]

\* configuration: the mode, the vehicles and the charger's capabilities
Configured(modes, vehicles, switchable) ==
    { [NewLoadPoint EXCEPT !.Mode = m, !.vehicles = v, !.chargePhases = c,
                           !.SoC = IF v = << >> THEN @
                                   ELSE [Min |-> SoCMin, Target |-> SoCTarget]] :
      m \in modes, v \in vehicles, c \in switchable }

\* Prepare: a single vehicle is treated as attached; the charger answers
\* Enabled() with enabled, or fails
prepare(s0, enabled, fail) ==
    LET s1 == IF Len(s0.vehicles) = 1 THEN setActiveVehicle(s0, s0.vehicles[1]) ELSE s0
        s  == IF Len(s1.vehicles) > 1 THEN startVehicleDetection(s1) ELSE s1
    IN  IF enabled = "true"
        THEN setLimit([s EXCEPT !.enabled = TRUE, !.guardUpdated = now],
                      s.MinCurrent, FALSE, fail).lp
        ELSE s

Prepare ==
    /\ tick.kind = "new"
    /\ \E enabled \in {"true", "false", "err"}, fail \in {"none", "current"} :
           /\ lp' = prepare(lp, enabled, fail)
           /\ tick' = [tick EXCEPT !.kind = "prepare", !.at = now]
    /\ UNCHANGED <<now, site>>

\* Update on the given sets of meter readings of a charging vehicle, site inputs and command outcomes; track says whether the tick record
\* follows the PV controller and the events of the bus
UpdateWith(track, whileCharging, sitePowers, hints, fails) ==
    /\ tick.kind # "new"
    /\ \E meter \in MeterReadings(lp, whileCharging), status \in ChargerStatus \cup {"err"} :
         \E s0 \in {updateChargeCurrents(
                       updateChargePower([lp EXCEPT !.phases1p3p = NoSwitch], meter),
                       meter)} :
           IF status = "err"
           THEN /\ lp' = s0
                /\ tick' = [NewTick EXCEPT !.kind = "update", !.at = now,
                                           !.disableSince = tick.disableSince,
                                           !.enableSince = tick.enableSince]
           ELSE \E s1 \in {updateChargerStatus(s0, status)} :
                \E soc \in SocReadings(s1), fail \in fails :
                \E s2 \in {MustValidateDemand(publishSoCAndRange(s1, soc))} :
                \E in \in StrategyInputs(s2, lp.Mode, sitePowers, hints) :
                \E r \in {strategy(s2, lp.Mode, in, meter.currents, fail)} :
                  /\ lp' = delivered(IF ~r.lp.socTimer.validated THEN Stop(r.lp)
                                     ELSE r.lp)
                  /\ tick' =
                       [kind |-> "update", at |-> now, polled |-> TRUE,
                        branch |-> r.branch, limit |-> r.limit,
                        force |-> r.force, err |-> r.err,
                        climate |-> climateActive(s2, in.climate),
                        pv |-> IF track THEN r.pv ELSE NoPV,
                        disableSince |->
                          IF track /\ r.branch = "pv"
                          THEN heldSince(r.pv.hysteresis = "disable" /\ r.pv.held,
                                         tick.disableSince)
                          ELSE tick.disableSince,
                        enableSince |->
                          IF track /\ r.branch = "pv"
                          THEN heldSince(r.pv.hysteresis = "enable" /\ r.pv.held,
                                         tick.enableSince)
                          ELSE tick.enableSince,
                        events |-> IF track THEN r.lp.events ELSE << >>]
    /\ UNCHANGED <<now, site>>

Update == UpdateWith(FALSE, {Reading(3)}, {-MinAmps * Voltage * 3, 2 * Voltage * 3}, CheapHint, {"none", "enable"})

\* the setters of the loadpoint API
SetMode ==
    \E mode \in Modes :
        /\ tick.kind # "new"
        /\ lp.Mode # mode
        /\ lp' = [lp EXCEPT !.Mode = mode]
        /\ tick' = [NewTick EXCEPT !.kind = "set"]
        /\ UNCHANGED <<now, site>>

RemoteControl ==
    \E demand \in {"", "hard"} :
        /\ tick.kind # "new"
        /\ lp.remoteDemand # demand
        /\ lp' = [lp EXCEPT !.remoteDemand = demand]
        /\ tick' = [NewTick EXCEPT !.kind = "set"]
        /\ UNCHANGED <<now, site>>

SetTargetCharge ==
    /\ tick.kind # "new"
    /\ lp.socTimer.Time # TargetTime
    /\ lp' = [lp EXCEPT !.socTimer.Time = TargetTime]
    /\ tick' = [NewTick EXCEPT !.kind = "set"]
    /\ UNCHANGED <<now, site>>

Init ==
    /\ lp \in Configured({"off", ""}, {<<Vehicle(0)>>}, {FALSE})
    /\ now = StartTime
    /\ site = NoSite
    /\ tick = NewTick

Next == Prepare \/ Update \/ SetMode \/ RemoteControl \/ SetTargetCharge

Spec == Init /\ [][Next]_vars

(***************************************************************************)
(* SpecPV: the loop in PV mode without a vehicle configured, so that every *)
(* connected tick evaluates the PV controller; the tick record follows the *)
(* hysteresis conditions.                                                  *)
(***************************************************************************)
InitPV ==
    /\ lp \in Configured({"pv"}, {<< >>}, {FALSE})
    /\ now = StartTime
    /\ site = NoSite
    /\ tick = NewTick

UpdatePV == UpdateWith(TRUE, {Reading(1), Reading(3), MeterFailed}, SitePowers, NoHints, {"none", "enable"})

NextPV == Prepare \/ UpdatePV \/ ClockAdvance

SpecPV == InitPV /\ [][NextPV]_vars

(***************************************************************************)
(* SpecSwitch: the loop in MinPV or PV mode on a switchable charger with a *)
(* vehicle, so that the PV controller evaluates the phase scaling, under   *)
(* any cheap-tariff, battery and climate signal.  The enable and disable   *)
(* delays are configured as zero: a scaling condition triggers the switch  *)
(* on the tick that finds it.                                              *)
(***************************************************************************)
InitSwitch ==
    /\ lp \in { [s EXCEPT !.Enable.Delay = 0, !.Disable.Delay = 0] :
                s \in Configured({"minpv", "pv"}, {<<Vehicle(0)>>}, {TRUE}) }
    /\ now = StartTime
    /\ site = NoSite
    /\ tick = NewTick

UpdateSwitch == UpdateWith(TRUE, {Reading(3)}, SitePowers, Hints, {"none", "phases"})

NextSwitch == Prepare \/ UpdateSwitch

SpecSwitch == InitSwitch /\ [][NextSwitch]_vars

(***************************************************************************)
(* SpecSurplus: the loop in PV mode with the default maximum current of    *)
(* 16 A, on a charger with or without fine-grained current control, under  *)
(* site powers that raise the target, exceed the maximum current and fall  *)
(* short of the minimum current.                                           *)
(***************************************************************************)
DefaultMaxAmps == 16

SurplusPowers == { -2000, -8000, 1000 }

InitSurplus ==
    /\ lp \in { [s EXCEPT !.MaxCurrent = DefaultMaxAmps * Amp, !.chargerEx = ex] :
                s \in Configured({"pv"}, {<< >>}, {FALSE}), ex \in BOOLEAN }
    /\ now = StartTime
    /\ site = NoSite
    /\ tick = NewTick

UpdateSurplus == UpdateWith(TRUE, {Reading(3)}, SurplusPowers, NoHints, {"none"})

NextSurplus == Prepare \/ UpdateSurplus \/ ClockAdvance

SpecSurplus == InitSurplus /\ [][NextSurplus]_vars

(***************************************************************************)
(* SpecDebounce: the loop in PV mode on a switchable charger without a     *)
(* vehicle configured, with the default delays, so that the phase timer    *)
(* runs over several ticks while the vehicle connects and disconnects.     *)
(***************************************************************************)
InitDebounce ==
    /\ lp \in Configured({"pv"}, {<< >>}, {TRUE})
    /\ now = StartTime
    /\ site = NoSite
    /\ tick = NewTick

UpdateDebounce == UpdateWith(TRUE, {Reading(3)}, SitePowers, NoHints, {"none"})

NextDebounce == Prepare \/ UpdateDebounce \/ ClockAdvance

SpecDebounce == InitDebounce /\ [][NextDebounce]_vars

(***************************************************************************)
(* SpecOverride: the loop in MinPV or PV mode with a vehicle, with or      *)
(* without a soft remote-disable demand, under any cheap-tariff, battery   *)
(* and climate signal.  The clock stands still: every tick falls into the  *)
(* guard duration of the enable or disable before it.                      *)
(***************************************************************************)
InitOverride ==
    /\ lp \in { [s EXCEPT !.remoteDemand = d] :
                s \in Configured({"minpv", "pv"}, {<<Vehicle(0)>>}, {FALSE}),
                d \in {"", "soft"} }
    /\ now = StartTime
    /\ site = NoSite
    /\ tick = NewTick

UpdateOverride == UpdateWith(TRUE, {Reading(3)}, SitePowers, Hints, {"none", "enable"})

NextOverride == Prepare \/ UpdateOverride

SpecOverride == InitOverride /\ [][NextOverride]_vars

(***************************************************************************)
(* SpecMinSoc: the loop in PV mode with a vehicle whose SoC is read below  *)
(* or at the minimum SoC, on a charger with or without phase switching     *)
(* that starts on 1 or 3 phases, with any charger command failing.  The    *)
(* clock stands still: no delay elapses by waiting.                        *)
(***************************************************************************)
InitMinSoc ==
    /\ lp \in { [s EXCEPT !.Phases = p] :
                s \in Configured({"pv"}, {<<Vehicle(0)>>}, BOOLEAN), p \in {1, 3} }
    /\ now = StartTime
    /\ site = NoSite
    /\ tick = NewTick

UpdateMinSoc == UpdateWith(TRUE, {Reading(3)}, {-MinAmps * Voltage * 3, 2 * Voltage * 3}, NoHints, FailKinds)

NextMinSoc == Prepare \/ UpdateMinSoc

SpecMinSoc == InitMinSoc /\ [][NextMinSoc]_vars

(***************************************************************************)
(* SpecPlanner: the target charging handler on its own.  The target time   *)
(* is set or cleared, the demand is evaluated as the loop does it          *)
(* (MustValidateDemand, then DemandActive) with any estimated duration, and *)
(* Handle is called after an evaluation that returned true.                *)
(***************************************************************************)
\* target times: one minute and 35 minutes after the start
TargetTimes == {StartTime + 1, StartTime + 35}

\* estimated charge durations over the charge efficiency (seconds)
PlanDurations == {0, 20, 40, 120, 1800, 3000}

InitPlanner ==
    /\ lp \in { [NewLoadPoint EXCEPT !.vehicle = v, !.status = "B"] :
                v \in {Nil, Vehicle(0)} }
    /\ now = StartTime
    /\ site = NoSite
    /\ tick = [kind |-> "init", at |-> zeroTime, duration |-> 0, wasActive |-> FALSE,
               before |-> 0, res |-> FALSE, current |-> 0]

\* soc.Timer.Set
PlannerSet ==
    \E t \in TargetTimes \cup {zeroTime} :
        /\ lp.socTimer.Time # t
        /\ lp' = [lp EXCEPT !.socTimer.Time = t]
        /\ tick' = [tick EXCEPT !.kind = "set"]
        /\ UNCHANGED <<now, site>>

\* MustValidateDemand and DemandActive of a tick; the charger status is B or C
PlannerDemand ==
    \E duration \in PlanDurations, status \in {"B", "C"} :
        \E r \in {DemandActive(MustValidateDemand([lp EXCEPT !.status = status]),
                                duration)} :
            /\ lp' = r.lp
            /\ tick' = [kind |-> "demand", at |-> now, duration |-> duration,
                        wasActive |-> lp.socTimer.active,
                        before |-> lp.socTimer.current, res |-> r.res,
                        current |-> r.lp.socTimer.current]
            /\ UNCHANGED <<now, site>>

\* Handle, called when DemandActive returned true
PlannerHandle ==
    /\ tick.kind = "demand"
    /\ tick.res
    /\ \E r \in {Handle(lp)} :
         /\ lp' = r.lp
         /\ tick' = [tick EXCEPT !.kind = "handle", !.at = now,
                                 !.before = lp.socTimer.current, !.current = r.res]
    /\ UNCHANGED <<now, site>>

\* soc.Timer.Stop: an active planner whose demand was not evaluated on a tick
PlannerStop ==
    /\ lp.socTimer.active
    /\ lp' = Stop(lp)
    /\ tick' = [tick EXCEPT !.kind = "stop"]
    /\ UNCHANGED <<now, site>>

NextPlanner == PlannerSet \/ PlannerDemand \/ PlannerHandle \/ PlannerStop \/ ClockAdvance

SpecPlanner == InitPlanner /\ [][NextPlanner]_vars

(***************************************************************************)
(* SpecLimit: setLimit called with every target current, with and without  *)
(* force, the charger accepting or refusing the commands.  The tick        *)
(* record keeps the loadpoint's fields before the call, the commands sent, *)
(* the command that failed, and, when the previous call failed and this    *)
(* call has its target and force, the command to retry.                    *)
(***************************************************************************)
NoCall == [cmd |-> "", arg |-> 0]

\* nothing, below minCurrent, minCurrent, between two amperes, maxCurrent
LimitTargets ==
    { 0, (MinAmps * Amp) \div 2, MinAmps * Amp, MinAmps * Amp + Amp \div 2,
      MaxAmps * Amp }

InitLimit ==
    /\ lp \in { [NewLoadPoint EXCEPT !.chargerEx = x] : x \in BOOLEAN }
    /\ now = StartTime
    /\ site = NoSite
    /\ tick = [kind |-> "init", at |-> zeroTime, target |-> 0, force |-> FALSE,
               fail |-> "none", err |-> FALSE, calls |-> << >>, failed |-> NoCall,
               retry |-> NoCall, chargeCurrent |-> 0, enabled |-> FALSE,
               guardUpdated |-> zeroTime]

SetLimit ==
    \E chargeCurrent \in LimitTargets, force \in BOOLEAN,
       fail \in {"none", "current", "enable"} :
      \E r \in {setLimit(lp, chargeCurrent, force, fail)} :
        /\ lp' = r.lp
        /\ tick' = [kind |-> "limit", at |-> now, target |-> chargeCurrent,
                    force |-> force, fail |-> fail, err |-> r.err, calls |-> r.calls,
                    failed |-> IF r.err THEN r.calls[Len(r.calls)] ELSE NoCall,
                    retry |-> IF tick.target = chargeCurrent /\ tick.force = force
                              THEN tick.failed ELSE NoCall,
                    chargeCurrent |-> lp.chargeCurrent, enabled |-> lp.enabled,
                    guardUpdated |-> lp.guardUpdated]
        /\ UNCHANGED <<now, site>>

NextLimit == SetLimit \/ ClockAdvance

SpecLimit == InitLimit /\ [][NextLimit]_vars

(***************************************************************************)
(* SpecTwice: the PV controller called twice in a row, with the same mode, *)
(* site power, battery hint, command outcomes and clock, the second call   *)
(* on the loadpoint as the first call left it.  The tick record keeps what *)
(* each call returned and the timers it left, and whether the first call   *)
(* changed anything but the timers.                                        *)
(***************************************************************************)
\* the loadpoint without its timers and the record of the phase switch
Untimed(s) ==
    [s EXCEPT !.pvTimer = zeroTime, !.phaseTimer = zeroTime, !.phases1p3p = NoSwitch]

Left(c) == [res |-> c.res, pvTimer |-> c.lp.pvTimer, phaseTimer |-> c.lp.phaseTimer]

InitTwice ==
    /\ lp \in { [NewLoadPoint EXCEPT !.Mode = m, !.chargePhases = c, !.Phases = p,
                                     !.status = st, !.enabled = e,
                                     !.chargeCurrent = IF e THEN NewLoadPoint.MinCurrent
                                                       ELSE 0,
                                     !.chargePower = IF e /\ st = "C"
                                                     THEN p * MinAmps * Voltage ELSE 0,
                                     !.Enable.Delay = d, !.Disable.Delay = d] :
                m \in {"pv", "minpv"}, c \in BOOLEAN, p \in {1, 3}, st \in {"B", "C"},
                e \in BOOLEAN, d \in {0, EnableDelay} }
    /\ now = StartTime
    /\ site = NoSite
    /\ tick = [kind |-> "init", at |-> zeroTime, sitePower |-> 0, same |-> FALSE,
               first |-> [res |-> 0, pvTimer |-> zeroTime, phaseTimer |-> zeroTime],
               second |-> [res |-> 0, pvTimer |-> zeroTime, phaseTimer |-> zeroTime],
               before |-> [pvTimer |-> zeroTime, phaseTimer |-> zeroTime]]

PVTwice ==
    \E sitePower \in SitePowers, batteryBuffered \in BOOLEAN,
       fail \in {"none", "enable", "phases"} :
      \E c1 \in {pvMaxCurrent([lp EXCEPT !.phases1p3p = NoSwitch], lp.Mode, sitePower,
                               batteryBuffered, FALSE, << >>, fail)} :
      \E c2 \in {pvMaxCurrent([c1.lp EXCEPT !.phases1p3p = NoSwitch], lp.Mode, sitePower,
                               batteryBuffered, FALSE, << >>, fail)} :
        /\ lp' = c2.lp
        /\ tick' = [kind |-> "twice", at |-> now, sitePower |-> sitePower,
                    same |-> Untimed(c1.lp) = Untimed(lp),
                    first |-> Left(c1), second |-> Left(c2),
                    before |-> [pvTimer |-> lp.pvTimer, phaseTimer |-> lp.phaseTimer]]
        /\ UNCHANGED <<now, site>>

NextTwice == PVTwice \/ ClockAdvance

SpecTwice == InitTwice /\ [][NextTwice]_vars

(***************************************************************************)
(* SpecEnable: the PV controller evaluated in PV or MinPV mode on a        *)
(* disabled charger, with an enable threshold of zero or of 2 A on 3       *)
(* phases, under site powers that give a target current of zero, between   *)
(* zero and minCurrent, of minCurrent and above it.                        *)
(***************************************************************************)
EnableThresholds == {0, -2 * Voltage * 3}

EnablePowers == { -MaxAmps * Voltage * 3, -MinAmps * Voltage * 3, -2 * Voltage * 3,
                  -Voltage * 3, 0, Voltage * 3 }

InitEnable ==
    /\ lp \in { [NewLoadPoint EXCEPT !.Mode = m, !.status = st, !.vehicle = v,
                                     !.Enable.Threshold = th] :
                m \in {"pv", "minpv"}, st \in {"B", "C"}, v \in {Nil, Vehicle(0)},
                th \in EnableThresholds }
    /\ now = StartTime
    /\ site = NoSite
    /\ tick = [kind |-> "init", at |-> zeroTime, sitePower |-> 0, floored |-> FALSE,
               target |-> 0, res |-> 0, before |-> zeroTime]

\* pvMaxCurrent on the disabled charger; floored: the battery is buffered or the
\* vehicle's climate is active
PVEnable ==
    \E sitePower \in EnablePowers, batteryBuffered \in BOOLEAN, climate \in BOOLEAN :
      \E c \in {pvMaxCurrent(lp, lp.Mode, sitePower, batteryBuffered,
                             climateActive(lp, climate), << >>, "none")} :
        /\ lp' = c.lp
        /\ tick' = [kind |-> "pv", at |-> now, sitePower |-> sitePower,
                    floored |-> batteryBuffered \/ climateActive(lp, climate),
                    target |-> c.target, res |-> c.res, before |-> lp.pvTimer]
        /\ UNCHANGED <<now, site>>

NextEnable == PVEnable \/ ClockAdvance

SpecEnable == InitEnable /\ [][NextEnable]_vars

(***************************************************************************)
(* SpecMutex: the control loop and a concurrent reader, step by step.      *)
(* A body is the sequence of steps of a function: a capability call, a     *)
(* publish to the UI channel, Lock, Unlock, or the read or write of a      *)
(* field.  A thread is [body, pc, held]: body[pc] is the step in progress  *)
(* (pc = 0: the function was called and no step has begun; an empty body:  *)
(* the thread is outside every function), held counts the field accesses   *)
(* since the thread's last Lock.  Lock begins only when the mutex is free. *)
(***************************************************************************)
CallStep(capability) == [op |-> "call", arg |-> capability]

PublishStep(key) == [op |-> "publish", arg |-> key]

LockStep == [op |-> "lock", arg |-> ""]

UnlockStep == [op |-> "unlock", arg |-> ""]

ReadStep(field) == [op |-> "read", arg |-> field]

WriteStep(field) == [op |-> "write", arg |-> field]

\* the accessors of the loadpoint API: GetPhases, GetMinCurrent, GetStatus, ...
Accessor(field) == <<LockStep, ReadStep(field), UnlockStep>>

getMeasuredPhasesBody == <<LockStep, ReadStep("measuredPhases"), UnlockStep>>

activePhasesBody == Accessor("Phases") \o <<ReadStep("vehicle")>> \o getMeasuredPhasesBody

setMeasuredPhasesBody ==
    <<LockStep, WriteStep("measuredPhases"), UnlockStep>>
        \o activePhasesBody \o <<PublishStep("activePhases")>>

updateChargePowerBody_publishLocked ==
    <<CallStep("CurrentPower"), LockStep, WriteStep("chargePower"),
      PublishStep("chargePower"), UnlockStep, ReadStep("chargePower")>>

updateChargePowerBody ==
    <<CallStep("CurrentPower"), LockStep, WriteStep("chargePower"), UnlockStep,
      PublishStep("chargePower"), ReadStep("chargePower")>>

\* both commands are sent
setLimitBody ==
    <<ReadStep("chargeCurrent")>> \o Accessor("MinCurrent")
        \o <<CallStep("MaxCurrent"), WriteStep("chargeCurrent")>>
        \o Accessor("MinCurrent")
        \o <<ReadStep("enabled"), ReadStep("guardUpdated"), CallStep("Enable"),
             WriteStep("enabled"), WriteStep("guardUpdated")>>

\* a vehicle is assigned
setActiveVehicleBody ==
    <<ReadStep("vehicle"), WriteStep("vehicle"), PublishStep("vehiclePresent"),
      ReadStep("vehicle"), PublishStep("vehicleTitle"), PublishStep("vehicleCapacity"),
      WriteStep("vehicleSoc"), PublishStep("vehicleSoC")>>

elapsePVTimerBody ==
    <<WriteStep("pvTimer"), WriteStep("guardUpdated"), ReadStep("pvTimer"),
      PublishStep("pvAction"), PublishStep("pvRemaining")>>

\* the timer is running
resetPVTimerIfRunningBody ==
    <<ReadStep("pvTimer"), WriteStep("pvTimer"), ReadStep("pvTimer"),
      PublishStep("pvAction"), PublishStep("pvRemaining")>>

\* a scaling condition holds and starts the phase timer
pvScalePhasesBody ==
    Accessor("Phases") \o activePhasesBody
        \o <<ReadStep("phaseTimer"), WriteStep("phaseTimer"), ReadStep("phaseTimer"),
             PublishStep("phaseAction"), PublishStep("phaseRemaining")>>

\* the functions the control loop runs in a tick
LoopBodies ==
    { updateChargePowerBody, setMeasuredPhasesBody, setLimitBody, setActiveVehicleBody,
      elapsePVTimerBody, resetPVTimerIfRunningBody, pvScalePhasesBody }

\* the loop-owned fields that concurrent readers access
LoopOwned == {"chargeCurrent", "enabled", "Phases", "pvTimer", "phaseTimer", "vehicle"}

\* the accessors a concurrent reader calls
ReaderBodies == {getMeasuredPhasesBody} \cup { Accessor(f) : f \in LoopOwned }

Outside == [body |-> << >>, pc |-> 0, held |-> 0]

\* the step a thread has in progress
Op(th) == IF th.pc = 0 THEN [op |-> "", arg |-> ""] ELSE th.body[th.pc]

\* the thread after it has begun its next step
Begin(th) ==
    LET step == th.body[th.pc + 1]
    IN  [th EXCEPT !.pc = @ + 1,
                   !.held = IF step.op = "lock" THEN 0
                            ELSE IF step.op \in {"read", "write"} THEN @ + 1
                            ELSE @]

\* sync.Mutex after thread who has begun step
Mutex(mutex, who, step) ==
    IF step.op = "lock" THEN who
    ELSE IF step.op = "unlock" THEN ""
    ELSE mutex

InitMutex ==
    /\ lp = NewLoadPoint
    /\ now = StartTime
    /\ site = NoSite
    /\ tick = [kind |-> "mutex", loop |-> Outside, reader |-> Outside]

\* thread who calls one of the bodies
CallBody(who, bodies) ==
    /\ tick[who].body = << >>
    /\ \E body \in bodies : tick' = [tick EXCEPT ![who] = [Outside EXCEPT !.body = body]]
    /\ UNCHANGED <<lp, now, site>>

\* thread who begins its next step; Lock waits for a free mutex
StepBody(who) ==
    /\ tick[who].pc < Len(tick[who].body)
    /\ \E step \in {tick[who].body[tick[who].pc + 1]} :
         /\ step.op = "lock" => lp.mutex = ""
         /\ lp' = [lp EXCEPT !.mutex = Mutex(@, who, step)]
         /\ tick' = [tick EXCEPT ![who] = Begin(@)]
    /\ UNCHANGED <<now, site>>

\* thread who returns from its body
ReturnBody(who) ==
    /\ tick[who].body # << >>
    /\ tick[who].pc = Len(tick[who].body)
    /\ tick' = [tick EXCEPT ![who] = Outside]
    /\ UNCHANGED <<lp, now, site>>

LoopCall == CallBody("loop", LoopBodies)

LoopStep == StepBody("loop")

LoopReturn == ReturnBody("loop")

ReaderCall == CallBody("reader", ReaderBodies)

ReaderStep == StepBody("reader")

ReaderReturn == ReturnBody("reader")

NextMutex ==
    LoopCall \/ LoopStep \/ LoopReturn \/ ReaderCall \/ ReaderStep \/ ReaderReturn

SpecMutex == InitMutex /\ [][NextMutex]_vars

(***************************************************************************)
(* SpecSite: the loadpoints of a site and the vehicle coordinator they     *)
(* share.  site.loadpoints are the loadpoints, site.tracked is the         *)
(* coordinator's owner of each vehicle (0: none), site.prepared are the    *)
(* loadpoints whose Prepare has run.  All ticks fall into the detection    *)
(* window of the connection.                                               *)
(***************************************************************************)
LoadPoints == {1, 2}

Car(k) == [id |-> k, phases |-> 0]

CarIds == {1, 2}

\* the vehicles configured for a loadpoint
Candidates == { <<Car(1)>>, <<Car(1), Car(2)>> }

\* the charger's answer to Identify(): whether it answers at all (it may not
\* implement api.Identifier, or fail), and the empty id 0 or the id of Car(1)
ChargerIds == { [ok |-> FALSE, id |-> 0], [ok |-> TRUE, id |-> 0],
                [ok |-> TRUE, id |-> Car(1).id] }

\* the soc estimator has no reading
NoSoc == [ok |-> FALSE, f |-> 0]

release(tracked, vehicle) == [tracked EXCEPT ![vehicle.id] = 0]

aquire(tracked, owner, vehicle) == [tracked EXCEPT ![vehicle.id] = owner]

\* reported: the vehicles whose charge status is B or C
coordinatorIdentifyVehicleByStatus(tracked, vehicles, reported) ==
    LET found == { k \in 1 .. Len(vehicles) :
                     tracked[vehicles[k].id] = 0 /\ vehicles[k].id \in reported }
    IN  IF Cardinality(found) = 1 THEN vehicles[CHOOSE k \in found : TRUE] ELSE Nil

\* the coordinator calls of setActiveVehicle(to) on a loadpoint with vehicle from
coordinate(tracked, owner, from, to) ==
    IF from = to
    THEN tracked
    ELSE LET t1 == IF from # Nil THEN release(tracked, from) ELSE tracked
         IN  IF to # Nil THEN aquire(t1, owner, to) ELSE t1

\* loadpoint i of the site has become s by at most one setActiveVehicle call
withLoadPoint(st, i, s) ==
    [st EXCEPT !.loadpoints[i] = s,
               !.tracked = coordinate(@, i, st.loadpoints[i].vehicle, s.vehicle)]

\* every vehicle has its own id as its single identifier
selectVehicleByID(s, id) ==
    LET found == { k \in 1 .. Len(s.vehicles) : s.vehicles[k].id = id }
    IN  IF found = {} THEN Nil ELSE s.vehicles[min(found)]

identifyVehicle(s, id) ==
    IF ~id.ok \/ s.vehicleID = id.id
    THEN s
    ELSE LET s1 == [s EXCEPT !.vehicleID = id.id]
             vehicle == selectVehicleByID(s1, id.id)
         IN  IF id.id # 0 /\ vehicle # Nil THEN setActiveVehicle(s1, vehicle) ELSE s1

vehicleUnidentified(s) ==
    /\ Len(s.vehicles) > 1
    /\ s.vehicle = Nil
    /\ Since(s.vehicleConnected) < vehicleDetectDuration

\* every vehicle implements api.ChargeState
identifyVehicleByStatus(st, i, reported) ==
    LET s == st.loadpoints[i]
        vehicle == coordinatorIdentifyVehicleByStatus(st.tracked, s.vehicles, reported)
    IN  IF Len(s.vehicles) <= 1 THEN st
        ELSE IF vehicle # Nil THEN withLoadPoint(st, i, setActiveVehicle(s, vehicle))
        ELSE IF s.vehicle # Nil THEN withLoadPoint(st, i, setActiveVehicle(s, Nil))
        ELSE st

\* the identification of the connected vehicle in Update
identify(st, i, id, reported) ==
    LET st1 == withLoadPoint(st, i, identifyVehicle(st.loadpoints[i], id))
    IN  IF ~connected(st.loadpoints[i]) THEN st
        ELSE IF vehicleUnidentified(st1.loadpoints[i])
        THEN identifyVehicleByStatus(st1, i, reported)
        ELSE st1

InitSite ==
    /\ lp = NewLoadPoint
    /\ now = StartTime
    /\ tick = [kind |-> "init", loadpoint |-> 0]
    /\ site \in { [loadpoints |-> [i \in LoadPoints |->
                                     [NewLoadPoint EXCEPT !.vehicles = v[i]]],
                    tracked    |-> [k \in CarIds |-> 0],
                    prepared   |-> {}] : v \in [LoadPoints -> Candidates] }

SitePrepare ==
    \E i \in LoadPoints \ site.prepared, enabled \in {"false", "err"} :
      /\ site' = [withLoadPoint(site, i, prepare(site.loadpoints[i], enabled, "none"))
                  EXCEPT !.prepared = @ \cup {i}]
      /\ tick' = [kind |-> "prepare", loadpoint |-> i]
      /\ UNCHANGED <<lp, now>>

\* Update of loadpoint i, in mode off, with the charger disabled since Prepare
SiteUpdate ==
    \E i \in site.prepared, status \in ChargerStatus \cup {"err"},
       id \in ChargerIds, reported \in SUBSET CarIds :
      \E meter \in MeterReadings(site.loadpoints[i], {Reading(3)}) :
      \E s0 \in {updateChargeCurrents(updateChargePower(site.loadpoints[i], meter),
                                      meter)} :
        /\ IF status = "err"
           THEN site' = [site EXCEPT !.loadpoints[i] = s0]
           ELSE \E st1 \in {withLoadPoint(site, i, updateChargerStatus(s0, status))} :
                \E st2 \in {identify(st1, i, id, reported)} :
                \E soc \in SocReadings(st2.loadpoints[i]) \cap {NoSoc} :
                \E s2 \in {MustValidateDemand(
                              publishSoCAndRange(st2.loadpoints[i], soc))} :
                \E in \in StrategyInputs(s2, s2.Mode, {0}, NoHints) :
                \E r \in {strategy(s2, s2.Mode, in, meter.currents, "none")} :
                  site' = [st2 EXCEPT !.loadpoints[i] =
                             delivered(IF ~r.lp.socTimer.validated THEN Stop(r.lp)
                                       ELSE r.lp)]
        /\ tick' = [kind |-> "update", loadpoint |-> i]
        /\ UNCHANGED <<lp, now>>

NextSite == SitePrepare \/ SiteUpdate

SpecSite == InitSite /\ [][NextSite]_vars

(***************************************************************************)
(* Claims on the control loop                                              *)
(***************************************************************************)
\* C1 (as claimed): in every state reached through Prepare, Update ticks,
\* command outcomes and setter calls, an enabled loadpoint has a chargeCurrent
\* of at least minCurrent.
C1_EnabledImpliesMinCurrent == lp.enabled => lp.chargeCurrent >= lp.MinCurrent

\* the case of the precedence chain that applies in the state a tick leaves
ExpectedBranch ==
    IF lp.status # "B" /\ lp.status # "C" THEN "disconnected"
    ELSE IF lp.vehicle # Nil /\ lp.vehicleSoc >= SoCTarget THEN "target"
    ELSE IF lp.remoteDemand = "hard" THEN "remote"
    ELSE IF lp.Mode = "off" THEN "off"
    ELSE IF lp.vehicle # Nil /\ lp.vehicleSoc < SoCMin THEN "minsoc"
    ELSE IF lp.Mode = "now" THEN "now"
    ELSE IF lp.socTimer.active THEN "planner"
    ELSE IF lp.Mode = "minpv" \/ lp.Mode = "pv" THEN "pv"
    ELSE "none"

\* C2: every Update tick whose status poll succeeds sets the limit in the first
\* case of the chain not connected, target SoC reached, hard remote-disable,
\* mode Off, below min SoC, mode Now, planner demand active, mode MinPV/PV whose
\* condition holds, with the limit and force of that case; a tick that matches
\* no case leaves chargeCurrent and enabled as they were.
C2_FirstMatchingBranch ==
    [][ tick'.kind = "update" /\ tick'.polled =>
          /\ tick'.branch = ExpectedBranch'
          /\ tick'.branch \in {"disconnected", "remote", "off"} => tick'.limit = 0
          /\ tick'.branch = "target" =>
               tick'.limit = IF tick'.climate THEN lp'.MinCurrent ELSE 0
          /\ tick'.branch \in {"minsoc", "now"} => tick'.limit = lp'.MaxCurrent
          /\ tick'.branch = "planner" =>
               /\ lp'.socTimer.Time # zeroTime
               /\ tick'.limit >= lp'.MinCurrent /\ tick'.limit <= lp'.MaxCurrent
          /\ tick'.branch \in {"target", "remote", "off", "minsoc", "now", "planner"} =>
               tick'.force
          /\ tick'.branch = "none" =>
               lp'.chargeCurrent = lp.chargeCurrent /\ lp'.enabled = lp.enabled ]_vars

\* mode Off has overridden min-SoC charging
C2_Witness ==
    /\ tick.kind = "update" /\ tick.polled
    /\ tick.branch = "off"
    /\ lp.status = "C" /\ lp.vehicleSoc < SoCMin /\ lp.socTimer.Time # zeroTime
    /\ ~lp.enabled

\* C3 (as claimed): a tick on which the charger reports status A, and on which
\* no charger command fails, ends with the charger not enabled.
C3_DisconnectedNotEnabled ==
    tick.kind = "update" /\ tick.polled /\ lp.status = "A" /\ ~tick.err => ~lp.enabled

\* C4 (as claimed): a tick with a hard remote-disable demand and a connected
\* vehicle commands limit 0 with force and ends with the charger not enabled.
C4_Original ==
    tick.kind = "update" /\ tick.polled /\ lp.remoteDemand = "hard"
        /\ (lp.status = "B" \/ lp.status = "C") =>
        tick.limit = 0 /\ tick.force /\ ~lp.enabled

\* C4 (amended): a tick with a hard remote-disable demand and a connected vehicle
\* whose target SoC is not reached takes the hard remote-disable case, commands
\* limit 0 with force whatever the mode, min SoC and planner, and ends with the
\* charger not enabled unless the disable command failed; when the target SoC is
\* reached the target-SoC case comes first and commands minCurrent if the
\* vehicle's climate control is active, 0 otherwise, with force.
C4_HardRemoteDisable ==
    tick.kind = "update" /\ tick.polled /\ lp.remoteDemand = "hard"
        /\ (lp.status = "B" \/ lp.status = "C") =>
        IF lp.vehicle # Nil /\ lp.vehicleSoc >= SoCTarget
        THEN /\ tick.branch = "target"
             /\ tick.limit = IF tick.climate THEN lp.MinCurrent ELSE 0
             /\ tick.force
        ELSE /\ tick.branch = "remote"
             /\ tick.limit = 0
             /\ tick.force
             /\ ~tick.err => ~lp.enabled

\* hard remote-disable has overridden mode Now while the vehicle is charging below
\* its target SoC
C4_Witness ==
    /\ tick.kind = "update" /\ tick.polled
    /\ lp.remoteDemand = "hard" /\ lp.Mode = "now" /\ lp.status = "C"
    /\ lp.vehicleSoc = SoCMin
    /\ tick.branch = "remote" /\ tick.force /\ ~lp.enabled
    /\ lp.chargeCurrent = lp.MaxCurrent

\* C5 (as claimed): in PV mode with the charger enabled and the target current
\* below minCurrent, the controller returns 0 only on an evaluation on which site
\* power is at least Disable.Threshold and has been so, under these conditions,
\* on every evaluation for at least Disable.Delay (a force-elapsed timer set
\* aside).
C5_DisableOnlyAfterDelay ==
    tick.kind = "update" /\ tick.branch = "pv" /\ tick.pv.hysteresis = "disable"
        /\ tick.pv.timer # elapsed /\ tick.pv.res = 0 =>
        /\ tick.pv.held
        /\ tick.disableSince # zeroTime
        /\ tick.at - tick.disableSince >= lp.Disable.Delay

\* C6 (as claimed): in PV mode with the charger disabled and the PV timer not
\* force-elapsed, the controller returns minCurrent only on an evaluation on
\* which the enable condition holds and has held on every evaluation for at
\* least Enable.Delay.
C6_EnableOnlyAfterDelay ==
    tick.kind = "update" /\ tick.branch = "pv" /\ tick.pv.hysteresis = "enable"
        /\ tick.pv.timer # elapsed /\ tick.pv.res >= lp.MinCurrent =>
        /\ tick.pv.held
        /\ tick.enableSince # zeroTime
        /\ tick.at - tick.enableSince >= lp.Enable.Delay

(***************************************************************************)
(* Claims on the phase functions and the scaling machine                   *)
(***************************************************************************)
Min3(a, b, c) == IF a <= b /\ a <= c THEN a ELSE IF b <= c THEN b ELSE c

E3(n) == IF n = 0 THEN 3 ELSE n

\* C7 (as claimed): pvScalePhases commands a switch to 1 phase only on a call
\* where the low-power condition holds and has held on every call for at least
\* Disable.Delay.
C7_ScaleDownOnlyAfterContinuousDelay ==
    tick.kind = "scale" /\ tick.to = 1 =>
        /\ tick.down
        /\ tick.downSince # zeroTime
        /\ tick.at - tick.downSince >= lp.Disable.Delay

\* the time the phase timer shows during the call: a zero timer is started by it
TimerElapsed == IF tick.timer = zeroTime THEN 0 ELSE tick.at - tick.timer

C9_NoScaleUpAtMax ==
    tick.kind = "scale" /\ (tick.maxPhases <= 1 \/ tick.phases = tick.maxPhases) =>
        tick.to # 3

\* configured 3 phases with 1 measured phase, enough power for 3 phases and a phase
\* timer older than the enable delay: no switch
C9_Witness ==
    /\ tick.kind = "scale" /\ tick.phases = 3 /\ tick.maxPhases = 1
    /\ tick.power = 3 * MinAmps * Voltage
    /\ tick.timer # zeroTime /\ tick.at - tick.timer >= lp.Enable.Delay
    /\ ~tick.res /\ lp.Phases = 3

\* C10: activePhases() = min(e(vehicle), e(configured), e(measured)) with e(0) = 3,
\* maxActivePhases() the same with configured replaced by 3 on a switchable charger
\* and measured ignored when configured <= 1 or vehicle = 1; both match every row
\* of the test table.
C10_PhasesMatchTable ==
    tick.kind = "phases" =>
        LET v == IF lp.vehicle = Nil THEN 0 ELSE lp.vehicle.phases
            p == lp.Phases
            m == lp.measuredPhases
        IN  /\ tick.act = Min3(E3(v), E3(p), E3(m))
            /\ tick.max = Min3(E3(v),
                               IF lp.chargePhases THEN 3 ELSE E3(p),
                               IF p <= 1 \/ v = 1 THEN 3 ELSE E3(m))
            /\ \A row \in phaseTests :
                   (lp.chargePhases <=> row[1] = 0) /\ p = row[2] /\ v = row[3]
                   /\ m = row[4] => tick.act = row[5] /\ tick.max = row[6]

\* switchable charger configured 1 phase with a 2 phase vehicle: 1 active, 2 at most
C10_Witness ==
    /\ tick.kind = "phases" /\ lp.chargePhases /\ lp.Phases = 1
    /\ lp.vehicle = Vehicle(2) /\ lp.measuredPhases = 0
    /\ tick.act = 1 /\ tick.max = 2


(***************************************************************************)
(* Claims on the phase switch                                              *)
(***************************************************************************)
\* C11: with zero delays and an idle phase timer pvScalePhases returns true at
\* power 1*minCurrent*Voltage exactly when activePhases() > 1, commanding 1
\* phase, and at power maxActivePhases()*minCurrent*Voltage exactly when
\* maxActivePhases() > 1 and the configured phases are below it, commanding 3
\* phases; the rows of phaseTests of a 1p3p charger scale as the table says;
\* with vehicle phases 1 no switch is commanded.
C11_TestScale ==
    tick.kind = "test" =>
        /\ tick.direction = "down" =>
              /\ tick.scaled = (tick.act > 1)
              /\ tick.to = IF tick.scaled THEN 1 ELSE 0
        /\ tick.direction = "up" =>
              /\ tick.scaled = (tick.max > 1 /\ tick.physical < tick.max)
              /\ tick.to = IF tick.scaled THEN 3 ELSE 0
        /\ \A row \in scaleTests :
              /\ row[1] = tick.physical
              /\ row[2] = tick.vehicle
              /\ row[3] = tick.measuredPhases
              => tick.scaled = IF tick.direction = "down" THEN row[4] ELSE row[5]
        /\ tick.vehicle = 1 => ~tick.scaled

\* unknown configured phases: a switch to 3 phases is commanded while
\* activePhases() already equals maxActivePhases()
C11_Witness ==
    /\ tick.kind = "test" /\ tick.direction = "up" /\ tick.scaled /\ tick.to = 3
    /\ tick.physical = 0 /\ tick.act = 3 /\ tick.max = 3
    /\ lp.Phases = 3

\* C12: the hardware phase switch is invoked only with the loadpoint's enabled
\* flag false; it is not attempted if the disable command fails; on switch
\* success the configured phase count is the requested one and the PV timer is
\* force-elapsed.
C12_SwitchOnlyWhenDisabled ==
    tick.kind = "scale" =>
        /\ lp.phases1p3p.called =>
              /\ ~lp.phases1p3p.enabled
              /\ ~lp.enabled
              /\ lp.phases1p3p.to = tick.to
        /\ tick.to # 0 /\ tick.enabled /\ tick.fail = "enable" =>
              /\ ~lp.phases1p3p.called
              /\ lp.enabled
        /\ lp.phases1p3p.called /\ ~lp.phases1p3p.err =>
              /\ lp.Phases = lp.phases1p3p.to
              /\ lp.pvTimer = elapsed

\* an enabled charger is disabled and switched to 1 phase
C12_Witness ==
    /\ tick.kind = "scale" /\ tick.enabled /\ tick.phases = 3
    /\ lp.phases1p3p.called /\ ~lp.phases1p3p.err /\ lp.phases1p3p.to = 1
    /\ lp.Phases = 1 /\ ~lp.enabled /\ lp.pvTimer = elapsed

\* C13: if the hardware phase switch returns an error, scalePhases returns an
\* error, the configured phase count and the PV timer are what they were before
\* the call; on the next call on which the scaling condition of the failed
\* switch holds the switch is attempted again.
C13_SwitchFailureKeepsPhases ==
    tick.kind = "scale" =>
        /\ lp.phases1p3p.called /\ lp.phases1p3p.err =>
              /\ scalePhases([lp EXCEPT !.phases1p3p = NoSwitch, !.enabled = tick.enabled],
                             tick.to, tick.fail).err
              /\ lp.Phases = tick.phases
              /\ lp.pvTimer = tick.pvTimer
              /\ tick.res
        /\ tick.failedTo = 1 /\ tick.down =>
              lp.phases1p3p.called /\ lp.phases1p3p.to = 1
        /\ tick.failedTo = 3 /\ tick.up =>
              lp.phases1p3p.called /\ lp.phases1p3p.to = 3

\* the switch to 1 phase failed on the call before and is attempted again
C13_Witness ==
    /\ tick.kind = "scale" /\ tick.failedTo = 1 /\ tick.down
    /\ lp.phases1p3p.called /\ lp.phases1p3p.to = 1 /\ lp.phases1p3p.err
    /\ lp.Phases = 3 /\ lp.pvTimer = zeroTime

\* C14 (as claimed): on a tick in MinPV or PV mode on which the phase scaling
\* invokes the hardware switch, the PV controller returns 0 and the charger is
\* not enabled at the end of the tick.
C14_ScaleKeepsDisabled ==
    /\ tick.kind = "update"
    /\ tick.branch = "pv"
    /\ lp.phases1p3p.called
    => /\ tick.pv.res = 0
       /\ ~lp.enabled

(***************************************************************************)
(* Claims on the target charging handler                                   *)
(***************************************************************************)
\* C15 (as claimed): with a target time set and a SoC estimator available, an
\* inactive planner becomes active, with its current seeded with maxCurrent
\* and the call returning true, exactly when now plus the assumed charge
\* duration is later than the target time; otherwise it stays inactive and
\* returns false; with no target time set it returns false without marking the
\* demand as validated.
C15_Original ==
    tick.kind = "demand" /\ ~tick.wasActive =>
        IF lp.socTimer.Time = zeroTime
        THEN ~tick.res /\ ~lp.socTimer.validated /\ ~lp.socTimer.active
        ELSE IF lp.vehicle = Nil
        THEN ~tick.res /\ ~lp.socTimer.active
        ELSE IF tick.at * 60 + tick.duration > lp.socTimer.Time * 60
        THEN tick.res /\ lp.socTimer.active /\ lp.socTimer.current = lp.MaxCurrent
        ELSE ~tick.res /\ ~lp.socTimer.active

\* C15: as above, with the projected finish rounded to the full minute (half
\* minutes up) before it is compared with the target time; a demand evaluated
\* with a target time set is marked validated, with or without an estimator.
C15_ActivatesWhenLate ==
    tick.kind = "demand" /\ ~tick.wasActive =>
        IF lp.socTimer.Time = zeroTime
        THEN ~tick.res /\ ~lp.socTimer.validated /\ ~lp.socTimer.active
        ELSE /\ lp.socTimer.validated
             /\ IF lp.vehicle = Nil
                THEN ~tick.res /\ ~lp.socTimer.active
                ELSE IF (tick.at * 60 + tick.duration + 30) \div 60 > lp.socTimer.Time
                THEN tick.res /\ lp.socTimer.active
                     /\ lp.socTimer.current = lp.MaxCurrent
                ELSE ~tick.res /\ ~lp.socTimer.active
                     /\ lp.socTimer.current = tick.before

\* the deadline is in one minute and two minutes are needed: the planner
\* becomes active at maxCurrent
C15_Witness ==
    /\ tick.kind = "demand" /\ ~tick.wasActive /\ tick.res
    /\ lp.socTimer.Time = tick.at + 1 /\ tick.duration = 120
    /\ lp.socTimer.active /\ lp.socTimer.current = lp.MaxCurrent
    /\ tick.before # lp.MaxCurrent

\* C16: a Handle call changes the planner current by one ampere down when the
\* projected finish is more than 30 minutes before the target time, by one
\* ampere up when it is after the target time and not at all otherwise, then
\* clamps it; the returned current, which is the planner's current, lies in
\* [minCurrent, maxCurrent].
C16_HandleNudgesAndClamps ==
    tick.kind = "handle" =>
        LET tm    == lp.socTimer
            delta == IF tm.finishAt < tm.Time - 30 THEN 0 - Amp
                     ELSE IF tm.finishAt > tm.Time THEN Amp
                     ELSE 0
            moved == tick.before + delta
        IN  /\ tick.current = IF moved > lp.MaxCurrent THEN lp.MaxCurrent
                              ELSE IF moved < lp.MinCurrent THEN lp.MinCurrent
                              ELSE moved
            /\ tick.current >= lp.MinCurrent
            /\ tick.current <= lp.MaxCurrent
            /\ tm.current = tick.current

\* a projected finish more than 30 minutes early takes one ampere off
C16_Witness ==
    /\ tick.kind = "handle"
    /\ lp.socTimer.finishAt < lp.socTimer.Time - 30
    /\ tick.before = lp.MaxCurrent
    /\ tick.current = lp.MaxCurrent - Amp

\* C17 (as claimed): at the end of every control-loop tick the planner is active
\* only if its demand was evaluated during that tick, i.e. the status poll
\* succeeded and DemandActive marked the demand validated.
C17_ActiveOnlyIfEvaluated ==
    tick.kind = "update" /\ lp.socTimer.active =>
        tick.polled /\ lp.socTimer.validated

\* C18: on a tick on which the polled status changes from B or C to A, the
\* planner is inactive and the measured phase count is 0 at the end of the tick.
C18_DisconnectResets ==
    [][ /\ tick'.kind = "update"
        /\ tick'.polled
        /\ lp'.status = "A"
        /\ lp.status \in {"B", "C"}
        => /\ ~lp'.socTimer.active
           /\ lp'.measuredPhases = 0 ]_vars

\* the vehicle is gone after the planner had been activated for it
C18_Witness ==
    /\ tick.kind = "update" /\ tick.polled /\ tick.branch = "disconnected"
    /\ lp.status = "A"
    /\ lp.socTimer.current = lp.MaxCurrent /\ lp.socTimer.finishAt # zeroTime
    /\ ~lp.socTimer.active /\ lp.socTimer.Time = zeroTime
    /\ lp.measuredPhases = 0

\* C20: the bus delivers connect, start, stop and disconnect events only on a
\* tick whose polled status differs from the previous status, and then in the
\* order connect (previous status A), start (new status C) or stop (previous
\* status C), disconnect (new status A, not the first status after startup);
\* the stop of a change from C to A precedes its disconnect, and the first
\* status after startup brings neither connect nor disconnect.
C20_EventsFollowStatusChange ==
    [][ tick'.kind = "update" =>
          LET prev    == lp.status
              new     == lp'.status
              ev      == tick'.events
              changed == tick'.polled /\ new # prev
          IN  /\ ev # << >> => changed
              /\ ev = (IF changed /\ prev = "A" THEN <<"connect">> ELSE << >>)
                      \o (IF changed /\ new = "C" THEN <<"start">>
                          ELSE IF changed /\ prev = "C" THEN <<"stop">> ELSE << >>)
                      \o (IF changed /\ new = "A" /\ prev # "" THEN <<"disconnect">>
                          ELSE << >>)
              /\ prev = "C" /\ new = "A" => ev = <<"stop", "disconnect">>
              /\ prev = "" => \A k \in 1 .. Len(ev) : ev[k] \notin {"connect", "disconnect"}
      ]_vars

\* a tick that polled A after C has delivered the stop and then the disconnect
C20_Witness ==
    /\ tick.kind = "update" /\ tick.polled
    /\ lp.status = "A"
    /\ tick.events = <<"stop", "disconnect">>

\* C19 (as claimed): whatever Prepare calls and ticks the loadpoints of a site
\* have run (identification by id and by status, disconnects), no vehicle is
\* the active vehicle of two loadpoints.
C19_VehicleOfOneLoadPoint ==
    \A i \in DOMAIN site.loadpoints, j \in DOMAIN site.loadpoints :
        i # j /\ site.loadpoints[i].vehicle # Nil =>
            site.loadpoints[i].vehicle # site.loadpoints[j].vehicle

C22_MutexNotHeldAcrossIO ==
    tick.kind = "mutex" =>
        /\ Op(tick.loop).op \in {"call", "publish"} => lp.mutex # "loop"
        /\ lp.mutex = "loop" =>
                /\ Op(tick.loop).op \in {"lock", "read", "write"}
                /\ tick.loop.held <= 1
        /\ lp.mutex = "reader" =>
                /\ Op(tick.reader).op \in {"lock", "read", "write"}
                /\ tick.reader.held <= 1

\* the reader reads measuredPhases under the mutex while the control loop
\* waits for the meter
C22_Witness ==
    /\ tick.kind = "mutex"
    /\ Op(tick.loop) = CallStep("CurrentPower")
    /\ lp.mutex = "reader"
    /\ Op(tick.reader) = ReadStep("measuredPhases")

\* C23 (as claimed): whenever the control loop writes one of the loop-owned
\* fields that concurrent readers access, it holds the loadpoint mutex, so
\* no reader reads the field while the write is in progress.
C23_WritesGuarded ==
    tick.kind = "mutex" =>
        /\ Op(tick.loop).op = "write" /\ Op(tick.loop).arg \in LoopOwned =>
                lp.mutex = "loop"
        /\ ~ /\ Op(tick.loop).op = "write"
              /\ Op(tick.reader) = ReadStep(Op(tick.loop).arg)

\* C24: when the PV controller is called twice in a row with the same mode,
\* site power, battery hint and clock, and the first call changed nothing of
\* the loadpoint but its timers, the second call returns the target current
\* of the first and leaves the PV timer and the phase timer as the first
\* call left them.
C24_ControllerIdempotent ==
    tick.kind = "twice" /\ tick.same => tick.second = tick.first

\* the first call started the phase timer and returned a current; the second
\* call found the timer running and did not restart it
C24_Witness ==
    /\ tick.kind = "twice" /\ tick.same
    /\ tick.before.phaseTimer = zeroTime
    /\ tick.first.phaseTimer = tick.at
    /\ tick.second.phaseTimer = tick.at
    /\ tick.first.res > 0

\* the tick of the example: PV mode, the charger enabled and the vehicle
\* charging at 6 A on 3 active phases before and during the tick, minimum
\* current 6 A, maximum current 16 A, and the PV controller sets the limit
C25_Charging6A ==
    /\ lp.Mode = "pv" /\ lp.enabled /\ lp.status = "C"
    /\ lp.chargeCurrent = 6 * Amp /\ activePhases(lp) = 3
    /\ lp.MinCurrent = 6 * Amp /\ lp.MaxCurrent = 16 * Amp
    /\ now' = now /\ tick'.kind = "update" /\ tick'.polled /\ tick'.branch = "pv"
    /\ lp'.status = "C" /\ ~tick'.err

\* C25 as stated: in the example the tick sets the charger limit to 8 A at a
\* site power of -2000 W
C25_Original ==
    [][C25_Charging6A /\ tick'.pv.sitePower = -2000
       => lp'.chargeCurrent = 8 * Amp]_vars

\* C25: in the example the target is 6 A + (-sitePower)/(230 V * 3), floored
\* at 0; a target of at least the minimum current is capped at the maximum
\* current and sent as the limit; at -2000 W the target is 6 A + 2000/690 A,
\* which sets a limit of 8 A on a charger of whole amperes and of the target
\* itself on a charger with fine-grained current control
C25_SurplusTarget ==
    [][C25_Charging6A
       => /\ tick'.pv.target
               = max2(6 * Amp + ((-tick'.pv.sitePower) * Amp) \div (Voltage * 3), 0)
          /\ tick'.pv.target >= lp.MinCurrent
               => /\ tick'.limit = min2(tick'.pv.target, 16 * Amp)
                  /\ lp'.chargeCurrent
                       = IF lp.chargerEx THEN tick'.limit ELSE Trunc(tick'.limit)
          /\ tick'.pv.sitePower = -2000
               => /\ tick'.pv.target = 6 * Amp + (2000 * Amp) \div (Voltage * 3)
                  /\ tick'.pv.target > 8 * Amp /\ tick'.pv.target < 9 * Amp
                  /\ lp'.chargeCurrent
                       = IF lp.chargerEx THEN tick'.pv.target ELSE 8 * Amp]_vars

\* a tick of the example at -2000 W has set 8 A on a charger of whole amperes
C25_Witness ==
    /\ tick.kind = "update" /\ tick.branch = "pv" /\ ~tick.err
    /\ tick.pv.sitePower = -2000
    /\ tick.pv.target = 6 * Amp + (2000 * Amp) \div (Voltage * 3)
    /\ ~lp.chargerEx /\ lp.chargeCurrent = 8 * Amp /\ lp.enabled /\ lp.status = "C"

\* the tick of the step switched the charger to n phases without error
C26_Switched(n) ==
    /\ now' = now /\ tick'.kind = "update"
    /\ lp'.phases1p3p.called /\ ~lp'.phases1p3p.err /\ lp'.phases1p3p.to = n

\* C26: after a successful phase switch to 1 phase the configured phase count
\* is 1, and a tick changes the configured phase count only by a successful
\* switch, to the phase count of that switch: ticks without a switch and ticks
\* whose switch fails keep it
C26_PhasesKeptUntilSwitch ==
    [][/\ C26_Switched(1) => lp'.Phases = 1
       /\ lp'.Phases # lp.Phases => C26_Switched(lp'.Phases)]_vars

\* a tick after a switch to 1 phase tried to switch back to 3 phases, failed
\* and kept 1 phase configured
C26_Witness ==
    /\ tick.kind = "update" /\ lp.Phases = 1
    /\ lp.phases1p3p.called /\ lp.phases1p3p.err /\ lp.phases1p3p.to = 3

\* C27 (as claimed): whenever pvScalePhases returns true the phase timer is
\* zero after the call, so that a scaling condition in the opposite direction
\* has to wait its full delay from then on
C27_TimerIdleAfterSwitch ==
    tick.kind = "scale" /\ tick.res => lp.phaseTimer = zeroTime

\* C28 (as claimed): at the end of every tick the phase timer is non-zero only
\* if the tick evaluated the phase scaling and found a scale-down or scale-up
\* condition to hold; a tick of a non-PV branch leaves no phase timer running
C28_TimerOnlyWhileConditionHolds ==
    tick.kind = "update" /\ tick.polled /\ lp.phaseTimer # zeroTime
        => tick.branch = "pv" /\ tick.pv.scaling

\* C29: a tick that ends with the vehicle connected and its target SoC
\* (0 < target < 100) reached has taken the target-SoC case in every mode and
\* under any remote demand: it commands the limit 0, or minCurrent when the
\* vehicle's climate is active, with force, which a charger whose commands
\* succeed follows, and it leaves the planner without target time and inactive
C29_TargetReachedStopsCharging ==
    tick.kind = "update" /\ tick.polled /\ connected(lp) /\ targetSocReached(lp)
        => /\ tick.branch = "target"
           /\ tick.limit = IF tick.climate THEN lp.MinCurrent ELSE 0
           /\ tick.force
           /\ ~tick.err => /\ lp.enabled = tick.climate
                           /\ tick.climate => lp.chargeCurrent = lp.MinCurrent
           /\ lp.socTimer.Time = zeroTime
           /\ ~lp.socTimer.active

\* the target SoC is reached in mode off under a hard remote demand while the
\* climate is active: the charger is enabled at minCurrent
C29_Witness ==
    /\ tick.kind = "update" /\ tick.polled /\ connected(lp) /\ targetSocReached(lp)
    /\ lp.Mode = "off" /\ lp.remoteDemand = "hard" /\ tick.climate
    /\ tick.branch = "target" /\ tick.limit = lp.MinCurrent /\ lp.enabled
    /\ lp.socTimer.Time = zeroTime

C31_ActiveUntilDeadlineAndNotCharging ==
    tick.kind = "demand" /\ tick.wasActive
        => /\ lp.socTimer.active
                <=> ~(/\ lp.socTimer.Time # zeroTime
                      /\ tick.at > lp.socTimer.Time
                      /\ lp.status # "C")
           /\ lp.socTimer.Time # zeroTime => tick.res = lp.socTimer.active

\* an active planner evaluated after its target time while the vehicle is
\* charging stays active
C31_Witness ==
    /\ tick.kind = "demand" /\ tick.wasActive /\ tick.res
    /\ lp.socTimer.Time # zeroTime /\ tick.at > lp.socTimer.Time
    /\ lp.status = "C" /\ lp.socTimer.active

\* an evaluation of the PV controller in PV mode on the disabled charger that
\* reaches the enable sequence: no floor of minCurrent applies
C32_EnableSequence ==
    /\ tick.kind = "pv" /\ lp.Mode = "pv" /\ ~lp.enabled
    /\ ~(tick.floored /\ tick.target < lp.MinCurrent)

\* C32 (as claimed): in PV mode with the charger disabled and threshold 0 the
\* enable timer runs after every evaluation whose target current is positive;
\* with a non-zero threshold it runs exactly when the site power is at most
\* the threshold
C32_Original ==
    tick.kind = "pv" /\ lp.Mode = "pv" /\ ~lp.enabled
        => /\ lp.Enable.Threshold = 0 /\ tick.target > 0 => lp.pvTimer # zeroTime
           /\ lp.Enable.Threshold # 0
                => (lp.pvTimer # zeroTime <=> tick.sitePower <= lp.Enable.Threshold)

\* C32: in an evaluation that reaches the enable sequence, with threshold 0
\* the enable timer runs afterwards exactly when the target current is at
\* least minCurrent, with a non-zero threshold exactly when the site power is
\* at most the threshold; a timer that was running keeps its start; when the
\* battery or climate floor applies the controller returns minCurrent and
\* leaves the timer as it was
C32_EnableCondition ==
    /\ C32_EnableSequence
         => /\ lp.Enable.Threshold = 0
                 => (lp.pvTimer # zeroTime <=> tick.target >= lp.MinCurrent)
            /\ lp.Enable.Threshold # 0
                 => (lp.pvTimer # zeroTime <=> tick.sitePower <= lp.Enable.Threshold)
            /\ lp.pvTimer # zeroTime
                 => lp.pvTimer = IF tick.before # zeroTime THEN tick.before ELSE tick.at
    /\ tick.kind = "pv" /\ tick.floored /\ tick.target < lp.MinCurrent
         => tick.res = lp.MinCurrent /\ lp.pvTimer = tick.before

\* threshold 0 and a positive target below minCurrent: a running enable timer
\* was reset
C32_Witness ==
    /\ C32_EnableSequence /\ lp.Enable.Threshold = 0
    /\ tick.target > 0 /\ tick.target < lp.MinCurrent
    /\ tick.before # zeroTime /\ lp.pvTimer = zeroTime /\ tick.res = 0

\* C33 (as claimed): an evaluation of the PV controller in MinPV mode, with
\* the battery-buffered hint or with active climate returns at least
\* minCurrent
C33_FloorAtMinCurrent ==
    tick.kind = "pv" /\ (lp.Mode = "minpv" \/ tick.floored)
        => tick.res >= lp.MinCurrent

\* C34: on a tick of the MinPV/PV branch a soft remote-disable demand commands
\* the limit 0 whatever the tariff and the climate, otherwise a cheap tariff
\* commands maxCurrent, otherwise active climate raises a controller result of
\* 0 to minCurrent, otherwise the controller's result is commanded; the
\* command is forced exactly when one of the overrides applies, and a forced
\* command that succeeds sets the enabled state whatever the guard
C34_OverridesInOrder ==
    tick.kind = "update" /\ tick.polled /\ tick.branch = "pv"
        => LET soft    == lp.remoteDemand = "soft"
               climate == tick.climate /\ tick.pv.res = 0
           IN  /\ soft => tick.limit = 0
               /\ ~soft /\ tick.pv.cheap => tick.limit = lp.MaxCurrent
               /\ ~soft /\ ~tick.pv.cheap /\ climate => tick.limit = lp.MinCurrent
               /\ ~soft /\ ~tick.pv.cheap /\ ~climate => tick.limit = tick.pv.res
               /\ tick.force <=> (soft \/ tick.pv.cheap \/ climate)
               /\ tick.force /\ ~tick.err => lp.enabled = (tick.limit > 0)

\* a soft remote-disable demand under a cheap tariff with active climate: the
\* charger is disabled
C34_Witness ==
    /\ tick.kind = "update" /\ tick.polled /\ tick.branch = "pv" /\ ~tick.err
    /\ lp.remoteDemand = "soft" /\ tick.pv.cheap /\ tick.climate
    /\ tick.limit = 0 /\ tick.force /\ ~lp.enabled /\ lp.guardUpdated = tick.at

\* the step is a PV-mode tick that follows a tick of the below-min-SoC branch
\* and finds the charger enabled, the target current below minCurrent and
\* the site power at or above the disable threshold, and its command succeeds
C35_DisableAfterMinSoc ==
    /\ tick.kind = "update" /\ tick.branch = "minsoc" /\ lp.enabled
    /\ now' = now /\ tick'.kind = "update" /\ tick'.polled /\ tick'.branch = "pv"
    /\ tick'.pv.hysteresis = "disable" /\ tick'.pv.held /\ ~tick'.err

PollInterval == 2

PollModes == {"charging", "connected", "always"}

\* every handler of a status change resets the soc update timestamp
updateChargerStatusSoc(s, status) ==
    LET r == updateChargerStatus(s, status)
    IN  IF r.events # s.events THEN [r EXCEPT !.socUpdated = zeroTime] ELSE r

\* socPollAllowed validates charging state against polling mode
socPollAllowed(s) ==
    LET remaining == s.Poll.Interval - Since(s.socUpdated)
        honourUpdateInterval ==
            \/ s.Poll.Mode = "always"
            \/ s.Poll.Mode = "connected" /\ connected(s)
    IN  \/ charging(s)
        \/ honourUpdateInterval /\ remaining <= 0
        \/ connected(s) /\ s.socUpdated = zeroTime

\* answers of the estimator: a state of charge (whole percent), the
\* must-retry sentinel, or another error
SocAnswers ==
    {[kind |-> "ok", f |-> f] : f \in {SoCMin, SoCTarget}}
        \cup {[kind |-> "retry", f |-> 0], [kind |-> "error", f |-> 0]}

NotAsked == [kind |-> "none", f |-> 0]

\* whether publishSoCAndRange calls the estimator
socAsked(s, byCharger) == s.vehicle # Nil /\ (socPollAllowed(s) \/ byCharger)

\* publishSoCAndRange that keeps the timestamp of a must-retry answer
publishSoCAndRangeTimed_noRollback(s, answer, byCharger) ==
    IF ~socAsked(s, byCharger) THEN s
    ELSE IF answer.kind = "ok"
         THEN [s EXCEPT !.socUpdated = now, !.vehicleSoc = answer.f]
         ELSE [s EXCEPT !.socUpdated = now]

\* publishSoCAndRange with the poll timestamp; byCharger: socProvidedByCharger
publishSoCAndRangeTimed(s, answer, byCharger) ==
    IF ~socAsked(s, byCharger) THEN s
    ELSE LET s1 == [s EXCEPT !.socUpdated = now]
         IN  IF answer.kind = "ok" THEN [s1 EXCEPT !.vehicleSoc = answer.f]
             ELSE IF answer.kind = "retry" THEN [s1 EXCEPT !.socUpdated = zeroTime]
             ELSE s1

WithPoll(s, mode) ==
    [n \in DOMAIN s \cup {"socUpdated", "Poll"} |->
        IF n = "socUpdated" THEN zeroTime
        ELSE IF n = "Poll" THEN [Mode |-> mode, Interval |-> PollInterval]
        ELSE s[n]]

InitSoc ==
    /\ lp \in {WithPoll(s, m) : s \in Configured({"off"}, {<<Vehicle(0)>>}, {FALSE}),
                                m \in PollModes}
    /\ now = StartTime
    /\ site = NoSite
    /\ tick = [kind |-> "new", at |-> zeroTime, polled |-> FALSE, soc |-> "none",
               before |-> 0, retried |-> zeroTime]

PrepareSoc ==
    /\ tick.kind = "new"
    /\ \E enabled \in {"true", "false"} :
           /\ lp' = prepare(lp, enabled, "none")
           /\ tick' = [tick EXCEPT !.kind = "prepare", !.at = now]
    /\ UNCHANGED <<now, site>>

\* Update with the estimator's answer; the tick records the answer (none if the
\* estimator was not called), the vehicle SoC before the call and the time of
\* the previous tick if its answer was must-retry
UpdateSoc ==
    /\ tick.kind # "new"
    /\ \E meter \in MeterReadings(lp, {Reading(3)}), status \in ChargerStatus \cup {"err"} :
         \E s0 \in {updateChargeCurrents(
                       updateChargePower([lp EXCEPT !.phases1p3p = NoSwitch], meter),
                       meter)} :
           IF status = "err"
           THEN /\ lp' = s0
                /\ tick' = [kind |-> "update", at |-> now, polled |-> FALSE,
                            soc |-> "none", before |-> s0.vehicleSoc,
                            retried |-> IF tick.soc = "retry" THEN tick.at ELSE zeroTime]
           ELSE \E s1 \in {updateChargerStatusSoc(s0, status)} :
                \E answer \in SocAnswers, byCharger \in BOOLEAN :
                \E s2 \in {MustValidateDemand(
                              publishSoCAndRangeTimed(s1, answer, byCharger))} :
                \E in \in StrategyInputs(s2, lp.Mode, {0}, NoHints) :
                \E r \in {strategy(s2, lp.Mode, in, meter.currents, "none")} :
                  /\ lp' = delivered(IF ~r.lp.socTimer.validated THEN Stop(r.lp)
                                     ELSE r.lp)
                  /\ tick' = [kind |-> "update", at |-> now, polled |-> TRUE,
                              soc |-> IF socAsked(s1, byCharger) THEN answer.kind
                                      ELSE "none",
                              before |-> s1.vehicleSoc,
                              retried |-> IF tick.soc = "retry" THEN tick.at ELSE zeroTime]
    /\ UNCHANGED <<now, site>>

NextSoc == PrepareSoc \/ UpdateSoc \/ ClockAdvance

SpecSoc == InitSoc /\ [][NextSoc]_vars

\* C36: a must-retry answer of the estimator leaves the SoC timestamp at zero
\* and the vehicle SoC at its previous value, any other estimator error leaves
\* the timestamp at the current time; on the next tick that reads the status and
\* finds a vehicle connected the estimator is called again
C36_RetryPollsNextTick ==
    [][ now' = now /\ tick'.kind = "update" /\ tick'.polled =>
          /\ tick'.soc = "retry" =>
                lp'.socUpdated = zeroTime /\ lp'.vehicleSoc = tick'.before
          /\ tick'.soc = "error" => lp'.socUpdated = now
          /\ tick.kind = "update" /\ tick.soc = "retry" /\ connected(lp')
                /\ lp'.vehicle # Nil
                => tick'.soc # "none" ]_vars

\* C36: the estimator answered within the poll interval after a must-retry
\* answer, with the vehicle connected and not charging
C36_Witness ==
    /\ tick.kind = "update" /\ tick.polled
    /\ tick.retried # zeroTime /\ tick.soc = "ok"
    /\ now - tick.retried < PollInterval
    /\ lp.status = "B" /\ lp.Poll.Mode = "connected"
    /\ lp.vehicleSoc = SoCTarget /\ lp.socUpdated = now

(***************************************************************************)
(* SpecSync: syncCharger between calls of setLimit.  The charger answers    *)
(* Enabled() with true, false or an error, and accepts or refuses Enable.   *)
(* Result of syncCharger: [lp, err, calls].  The tick record keeps the      *)
(* charger's answer and the commands sent.                                  *)
(***************************************************************************)
\* syncCharger that adopts the state the charger reports
syncCharger_adopt(s, reported, fail) ==
    IF reported = "err" THEN [lp |-> s, err |-> TRUE, calls |-> << >>]
    ELSE IF (reported = "true") # s.enabled
         THEN [lp |-> [s EXCEPT !.enabled = (reported = "true")], err |-> FALSE,
               calls |-> << >>]
         ELSE [lp |-> s, err |-> FALSE, calls |-> << >>]

\* syncCharger updates charger status and synchronizes it with expectations
syncCharger(s, reported, fail) ==
    IF reported = "err" THEN [lp |-> s, err |-> TRUE, calls |-> << >>]
    ELSE IF (reported = "true") # s.enabled
         THEN [lp |-> s, err |-> fail = "enable", calls |-> <<EnableCall(s.enabled)>>]
         ELSE [lp |-> s, err |-> FALSE, calls |-> << >>]

InitSync ==
    /\ lp \in { [NewLoadPoint EXCEPT !.status = st, !.pvTimer = t] :
                st \in {"B", "C"}, t \in {zeroTime, elapsed} }
    /\ now = StartTime
    /\ site = NoSite
    /\ tick = [kind |-> "init", at |-> zeroTime, reported |-> "", err |-> FALSE,
               calls |-> << >>]

LimitSync ==
    \E chargeCurrent \in LimitTargets, force \in BOOLEAN, fail \in {"none", "enable"} :
      \E r \in {setLimit(lp, chargeCurrent, force, fail)} :
        /\ lp' = r.lp
        /\ tick' = [kind |-> "limit", at |-> now, reported |-> "", err |-> r.err,
                    calls |-> r.calls]
        /\ UNCHANGED <<now, site>>

SyncCharger ==
    \E reported \in {"true", "false", "err"}, fail \in {"none", "enable"} :
      \E r \in {syncCharger(lp, reported, fail)} :
        /\ lp' = r.lp
        /\ tick' = [kind |-> "sync", at |-> now, reported |-> reported, err |-> r.err,
                    calls |-> r.calls]
        /\ UNCHANGED <<now, site>>

NextSync == LimitSync \/ SyncCharger \/ ClockAdvance

SpecSync == InitSync /\ [][NextSync]_vars

\* C37: syncCharger leaves the loadpoint as it is, whatever the charger
\* reports; it sends Enable with the loadpoint's enabled flag when the reported
\* state differs from it, and nothing otherwise
C37_SyncKeepsLoadpoint ==
    [][ now' = now /\ tick'.kind = "sync" =>
          /\ lp' = lp
          /\ tick'.calls =
               IF tick'.reported # "err" /\ (tick'.reported = "true") # lp.enabled
               THEN <<EnableCall(lp.enabled)>> ELSE << >> ]_vars

\* C37: the charger reported disabled while charging, the loadpoint enabled at
\* maxCurrent within the guard duration: Enable(true) was sent again
C37_Witness ==
    /\ tick.kind = "sync" /\ tick.reported = "false" /\ tick.calls = <<EnableCall(TRUE)>>
    /\ lp.status = "C" /\ lp.enabled /\ lp.chargeCurrent = lp.MaxCurrent
    /\ lp.guardUpdated = now /\ lp.pvTimer = elapsed

(***************************************************************************)
(* SpecRange: the PV controller on the enabled and on the disabled charger, *)
(* with and without phase switching, for minCurrent below, equal to and     *)
(* above maxCurrent.  The tick record keeps the target and the result.      *)
(***************************************************************************)
\* [minCurrent, maxCurrent] in amperes
CurrentLimits == { <<MinAmps, MaxAmps>>, <<MinAmps, MinAmps>>, <<MaxAmps, MinAmps>> }

\* export of 10 A, 7.5 A and 6 A on 3 phases, 2 A on 3 phases, import
RangePowers == { -10 * Voltage * 3, -(15 * Voltage * 3) \div 2, -MinAmps * Voltage * 3,
                 -2 * Voltage * 3, Voltage * 3 }

InitRange ==
    /\ lp \in { [NewLoadPoint EXCEPT !.Mode = m, !.status = st, !.enabled = en,
                                     !.chargePhases = c,
                                     !.MinCurrent = l[1] * Amp, !.MaxCurrent = l[2] * Amp,
                                     !.chargeCurrent = IF en THEN l[1] * Amp ELSE 0] :
                m \in {"pv", "minpv"}, st \in {"B", "C"}, en \in BOOLEAN,
                c \in BOOLEAN, l \in CurrentLimits }
    /\ now = StartTime
    /\ site = NoSite
    /\ tick = [kind |-> "init", at |-> zeroTime, sitePower |-> 0, target |-> 0,
               res |-> 0, scaled |-> FALSE]

PVRange ==
    \E sitePower \in RangePowers, batteryBuffered \in BOOLEAN, fail \in {"none", "phases"} :
      \E c \in {pvMaxCurrent(lp, lp.Mode, sitePower, batteryBuffered, FALSE, << >>, fail)} :
        /\ lp' = c.lp
        /\ tick' = [kind |-> "pv", at |-> now, sitePower |-> sitePower,
                    target |-> c.target, res |-> c.res, scaled |-> c.scaled]
        /\ UNCHANGED <<now, site>>

NextRange == PVRange \/ ClockAdvance

SpecRange == InitRange /\ [][NextRange]_vars

\* C38: for minCurrent <= maxCurrent the PV controller returns 0 or a current
\* in [minCurrent, maxCurrent]
C38_ZeroOrWithinLimits ==
    tick.kind = "pv" /\ lp.MinCurrent <= lp.MaxCurrent =>
        \/ tick.res = 0
        \/ lp.MinCurrent <= tick.res /\ tick.res <= lp.MaxCurrent

\* C38: a target above maxCurrent was capped, with minCurrent < maxCurrent
C38_Witness ==
    /\ tick.kind = "pv" /\ lp.MinCurrent < lp.MaxCurrent
    /\ tick.target > lp.MaxCurrent /\ tick.res = lp.MaxCurrent

(***************************************************************************)
(* SpecGuard: setLimit and elapsePVTimer on a clock that reads half         *)
(* seconds, the guard duration being GuardDuration seconds.  The tick       *)
(* record keeps the time of the last change of the enabled state (zero:     *)
(* none yet) and whether elapsePVTimer was called since.                    *)
(***************************************************************************)
\* ticks of the clock in a second
ClockTicksPerSecond == 2

InitGuard ==
    /\ lp \in { [NewLoadPoint EXCEPT !.ticksPerSecond = ClockTicksPerSecond,
                                     !.GuardDuration = ClockTicksPerSecond * GuardDuration,
                                     !.chargerEx = x] : x \in BOOLEAN }
    /\ now = StartTime
    /\ site = NoSite
    /\ tick = [kind |-> "init", at |-> zeroTime, force |-> FALSE, err |-> FALSE,
               switched |-> zeroTime, elapsedSince |-> FALSE]

GuardLimit ==
    \E chargeCurrent \in {0, MinAmps * Amp, MaxAmps * Amp}, force \in BOOLEAN,
       fail \in {"none", "enable"} :
      \E r \in {setLimit(lp, chargeCurrent, force, fail)} :
        /\ lp' = r.lp
        /\ tick' = [kind |-> "limit", at |-> now, force |-> force, err |-> r.err,
                    switched |-> IF r.lp.enabled # lp.enabled THEN now
                                 ELSE tick.switched,
                    elapsedSince |-> r.lp.enabled = lp.enabled /\ tick.elapsedSince]
        /\ UNCHANGED <<now, site>>

\* vehicle connect, successful phase switch, min-SoC charging
GuardElapse ==
    /\ lp' = elapsePVTimer(lp)
    /\ tick' = [tick EXCEPT !.kind = "elapse", !.at = now, !.elapsedSince = TRUE]
    /\ UNCHANGED <<now, site>>

NextGuard == GuardLimit \/ GuardElapse \/ ClockAdvance

SpecGuard == InitGuard /\ [][NextGuard]_vars

\* C39 (as claimed): a setLimit that changes the enabled state is forced, or
\* follows a call of elapsePVTimer, or comes at least GuardDuration after the
\* previous change; every change restarts the guard
C39_GuardHolds ==
    [][ now' = now /\ tick'.kind = "limit" /\ lp'.enabled # lp.enabled =>
          /\ \/ tick'.force
             \/ tick.switched = zeroTime
             \/ tick.elapsedSince
             \/ now - tick.switched >= lp.GuardDuration
          /\ lp'.guardUpdated = now ]_vars

\* C39: as claimed but for the last second of the guard duration, which the
\* truncation of the remaining time gives away
C39_GuardButLastSecond ==
    [][ now' = now /\ tick'.kind = "limit" /\ lp'.enabled # lp.enabled =>
          /\ \/ tick'.force
             \/ tick.switched = zeroTime
             \/ tick.elapsedSince
             \/ now - tick.switched > lp.GuardDuration - lp.ticksPerSecond
          /\ lp'.guardUpdated = now ]_vars

(***************************************************************************)
(* SpecDemand: the control loop in PV mode and in a mode that leaves the    *)
(* limit unchanged, with the target time set and cleared between ticks.     *)
(* The tick record keeps whether the planner's demand was evaluated, with   *)
(* which target time and active flag, what the evaluation returned and the  *)
(* active flag on its return.                                               *)
(***************************************************************************)
NoDemand == [evaluated |-> FALSE, time |-> zeroTime, wasActive |-> FALSE,
             res |-> FALSE, active |-> FALSE]

demandObserved(s, mode, duration) ==
    IF firstCase(s, mode) # "demand" THEN NoDemand
    ELSE [evaluated |-> TRUE, time |-> s.socTimer.Time,
          wasActive |-> s.socTimer.active,
          res |-> DemandActive(s, duration).res,
          active |-> DemandActive(s, duration).lp.socTimer.active]

InitDemand ==
    /\ lp \in Configured({"pv", ""}, {<<Vehicle(0)>>}, {FALSE})
    /\ now = StartTime
    /\ site = NoSite
    /\ tick = [kind |-> "new", polled |-> FALSE, branch |-> "", demand |-> NoDemand]

PrepareDemand ==
    /\ tick.kind = "new"
    /\ lp' = prepare(lp, "false", "none")
    /\ tick' = [tick EXCEPT !.kind = "prepare"]
    /\ UNCHANGED <<now, site>>

\* SetTargetCharge with a target time, or with the zero time
SetTargetDemand ==
    \E t \in {TargetTime, zeroTime} :
        /\ tick.kind # "new"
        /\ lp.socTimer.Time # t
        /\ lp' = [lp EXCEPT !.socTimer.Time = t]
        /\ tick' = [tick EXCEPT !.kind = "set"]
        /\ UNCHANGED <<now, site>>

UpdateDemand ==
    /\ tick.kind # "new"
    /\ \E meter \in MeterReadings(lp, {Reading(3)}), status \in ChargerStatus \cup {"err"} :
         \E s0 \in {updateChargeCurrents(
                       updateChargePower([lp EXCEPT !.phases1p3p = NoSwitch], meter),
                       meter)} :
           IF status = "err"
           THEN /\ lp' = s0
                /\ tick' = [kind |-> "update", polled |-> FALSE, branch |-> "",
                            demand |-> NoDemand]
           ELSE \E s1 \in {updateChargerStatus(s0, status)} :
                \E soc \in SocReadings(s1), fail \in {"none"} :
                \E s2 \in {MustValidateDemand(publishSoCAndRange(s1, soc))} :
                \E in \in StrategyInputs(s2, lp.Mode, {-MinAmps * Voltage * 3}, NoHints) :
                \E r \in {strategy(s2, lp.Mode, in, meter.currents, fail)} :
                  /\ lp' = delivered(IF ~r.lp.socTimer.validated THEN Stop(r.lp)
                                     ELSE r.lp)
                  /\ tick' = [kind |-> "update", polled |-> TRUE, branch |-> r.branch,
                              demand |-> demandObserved(s2, lp.Mode, in.duration)]
    /\ UNCHANGED <<now, site>>

NextDemand == PrepareDemand \/ SetTargetDemand \/ UpdateDemand \/ ClockAdvance

SpecDemand == InitDemand /\ [][NextDemand]_vars

\* C40 (as claimed): when the demand evaluation of a tick returned false the
\* active flag was false on its return, and at the end of a tick that ran the
\* PV controller or left the limit unchanged the planner is not active
C40_Original ==
    tick.kind = "update" /\ tick.polled =>
        /\ tick.demand.evaluated /\ ~tick.demand.res => ~tick.demand.active
        /\ tick.branch = "pv" \/ tick.branch = "none" => ~lp.socTimer.active

\* C40: when the demand evaluation of a tick returned false with a target time
\* set, the active flag was false on its return; without a target time the
\* evaluation left the flag and the validation as they were; at the end of a
\* tick that ran the PV controller or left the limit unchanged the planner is
\* not active
C40_InactiveAtEndOfTick ==
    tick.kind = "update" /\ tick.polled =>
        /\ tick.demand.evaluated /\ ~tick.demand.res =>
              IF tick.demand.time # zeroTime THEN ~tick.demand.active
              ELSE tick.demand.active = tick.demand.wasActive /\ ~lp.socTimer.validated
        /\ tick.branch = "pv" \/ tick.branch = "none" =>
              /\ tick.demand.evaluated /\ ~tick.demand.res
              /\ ~lp.socTimer.active

\* C40: a tick in PV mode on which the active planner, its target time passed
\* and the vehicle not charging, deactivated itself and the PV controller ran
C40_Witness ==
    /\ tick.kind = "update" /\ tick.polled /\ tick.branch = "pv"
    /\ tick.demand.evaluated /\ tick.demand.wasActive /\ ~tick.demand.res
    /\ tick.demand.time # zeroTime /\ now > tick.demand.time
    /\ lp.socTimer.validated /\ ~lp.socTimer.active

=============================================================================
